---- MODULE Spec2Model ----
(***************************************************************************)
(* HoverPeek: the preflight classification pipeline, the risk reduction,   *)
(* the fetch planner, the TTL cache and the preview generator of           *)
(* src/src/background.ts, as state machines.                               *)
(*                                                                         *)
(* Specifications:                                                         *)
(*   SpecPure    - scoreRisk and decideFetchPlan applied to bounded inputs *)
(*   Spec        - one preflightCheck request after another, through the   *)
(*                 onMessage handler and performPreflightCheck             *)
(*   SpecCache   - one CacheManager instance with its hydration and        *)
(*                 persistence tasks                                       *)
(*   SpecPersist - the write retry of persistToStorage                     *)
(*   SpecOverlap - two preflightCheck requests in flight at once           *)
(*   SpecTimed   - one classification with the timers of its fetches       *)
(*   SpecPreview - generatePreview                                         *)
(*   SpecImage   - the Image branch of generatePreview, await by await     *)
(*   SpecFetch   - performPartialFetch                                     *)
(*   SpecOffscreen - setupOffscreenDocument called by concurrent previews  *)
(*   SpecContent - the content script of one page: hover timers, popups,   *)
(*                 the enabled flag and the preview updates                *)
(***************************************************************************)
EXTENDS Integers, Sequences, FiniteSets, TLC

None == "none"

\* ------------------------------------------------------------------ enums
\* enum LinkType
Webpage == "webpage"
PDF == "pdf"
Download == "download"
Image == "image"
Video == "video"
Mailto == "mailto"
Tel == "tel"
Anchor == "anchor"
Blocked == "blocked"
LinkType == {Webpage, PDF, Download, Image, Video, Mailto, Tel, Anchor, Blocked}

\* enum RiskLevel
Green == "green"
Amber == "amber"
Red == "red"
RiskLevel == {Green, Amber, Red}

\* enum FetchPlan (the Blocked member has the same string value as LinkType.Blocked)
PlanBlocked == "blocked"
HeadOnly == "head-only"
PartialGet == "partial-get"
NoFetch == "no-fetch"
FetchPlan == {PlanBlocked, HeadOnly, PartialGet, NoFetch}

\* interface RiskSignal
RiskSignal(level, reason) == [level |-> level, reason |-> reason]

\* ------------------------------------------------------------ sequences
\* Array.prototype.filter(s => s.level === level)
Filter(s, level) == SelectSeq(s, LAMBDA x : x.level = level)

\* Array.prototype.slice(0, n)
Slice0(s, n) == SubSeq(s, 1, IF Len(s) < n THEN Len(s) ELSE n)

\* Array.prototype.map(s => s.reason)
Reasons(s) == [i \in 1..Len(s) |-> s[i].reason]

\* ------------------------------------------------------------ scoreRisk
\* a scoreRisk that reports Amber as soon as the first signal is Amber
scoreRiskFirstWins(signals) ==
    IF Len(signals) = 0 THEN [risk |-> Green, reasons |-> <<>>]
    ELSE IF signals[1].level = Amber
    THEN [risk |-> Amber, reasons |-> Reasons(Slice0(Filter(signals, Amber), 2))]
    ELSE IF Filter(signals, Red) # <<>>
    THEN [risk |-> Red, reasons |-> Reasons(Slice0(Filter(signals, Red), 2))]
    ELSE IF Filter(signals, Amber) # <<>>
    THEN [risk |-> Amber, reasons |-> Reasons(Slice0(Filter(signals, Amber), 2))]
    ELSE [risk |-> Green, reasons |-> <<>>]

\* a scoreRisk that keeps the first two reasons of any level
scoreRiskMixedReasons(signals) ==
    IF Len(signals) = 0 THEN [risk |-> Green, reasons |-> <<>>]
    ELSE IF Filter(signals, Red) # <<>>
    THEN [risk |-> Red, reasons |-> Reasons(Slice0(signals, 2))]
    ELSE IF Filter(signals, Amber) # <<>>
    THEN [risk |-> Amber, reasons |-> Reasons(Slice0(signals, 2))]
    ELSE [risk |-> Green, reasons |-> <<>>]

scoreRisk(signals) ==
    IF Len(signals) = 0 THEN [risk |-> Green, reasons |-> <<>>]
    ELSE LET redSignals == Filter(signals, Red)
             amberSignals == Filter(signals, Amber)
         IN  IF Len(redSignals) > 0
             THEN [risk |-> Red, reasons |-> Reasons(Slice0(redSignals, 2))]
             ELSE IF Len(amberSignals) > 0
             THEN [risk |-> Amber, reasons |-> Reasons(Slice0(amberSignals, 2))]
             ELSE [risk |-> Green, reasons |-> <<>>]

\* ------------------------------------------------------ decideFetchPlan
\* a decideFetchPlan that tests the NoFetch/PartialGet/HeadOnly rows before
\* the Red-download row
decideFetchPlanRedLast(type, risk) ==
    IF type = Blocked THEN PlanBlocked
    ELSE IF type \in {Mailto, Tel, Anchor, Video} THEN NoFetch
    ELSE IF type = Image THEN PartialGet
    ELSE IF type = Webpage \/ type = PDF THEN PartialGet
    ELSE IF type = Download THEN HeadOnly
    ELSE IF risk = Red /\ type = Download THEN PlanBlocked
    ELSE PartialGet

decideFetchPlan(type, risk) ==
    IF type = Blocked THEN PlanBlocked
    ELSE IF risk = Red /\ type = Download THEN PlanBlocked
    ELSE IF type \in {Mailto, Tel, Anchor, Video} THEN NoFetch
    ELSE IF type = Image THEN PartialGet
    ELSE IF type = Webpage \/ type = PDF THEN PartialGet
    ELSE IF type = Download THEN HeadOnly
    ELSE PartialGet

\* ------------------------------------------------------------ optionals
\* null / undefined, and a present value
Null == <<>>
Some(x) == <<x>>

\* ------------------------------------------------------------------ URLs
\* A parsed URL (the fields of the URL class the code reads). hostname is the
\* list of its dot-separated labels; pathname, search and hash are the strings.
Url(protocol, hostname, pathname, search, hash) ==
    [protocol |-> protocol, hostname |-> hostname, pathname |-> pathname,
     search |-> search, hash |-> hash]

\* An href string: whether new URL(href, base) succeeds, and what it yields.
\* Every href a page hands over is absolute (HTMLAnchorElement.href), so the
\* base never changes the outcome.
Href(parses, url) == [parses |-> parses, url |-> url]

ExampleCom == <<"example", "com">>
WwwExampleCom == <<"www", "example", "com">>
PunyCom == <<"xn--pple-43d", "com">>
CdnNet == <<"cdn", "files", "net">>

\* hostname labels that contain the substring 'xn--'
PunycodeLabels == {"xn--pple-43d"}

OpaqueUrl(protocol, pathname) == Url(protocol, <<>>, pathname, "", "")

\* the hrefs of the model
Hrefs ==
    { Href(TRUE, OpaqueUrl("javascript:", "alert(1)")),
      Href(TRUE, OpaqueUrl("data:", "text/html,x")),
      Href(TRUE, Url("file:", <<>>, "/etc/passwd", "", "")),
      Href(TRUE, OpaqueUrl("vbscript:", "msgbox(1)")),
      Href(TRUE, OpaqueUrl("mailto:", "a@example.com")),
      Href(TRUE, OpaqueUrl("tel:", "+15550100")),
      Href(TRUE, Url("ftp:", PunyCom, "/setup.exe", "", "")),
      Href(FALSE, Url("https:", <<"exa mple", "com">>, "/", "", "")),
      Href(TRUE, Url("https:", ExampleCom, "/", "", "#top")),
      Href(TRUE, Url("http:", ExampleCom, "/", "", "#top")),
      Href(TRUE, Url("https:", ExampleCom, "/report.pdf", "", "")),
      Href(TRUE, Url("http:", WwwExampleCom, "/", "", "")),
      Href(TRUE, Url("http:", PunyCom, "/setup.exe", "", "")),
      Href(TRUE, OpaqueUrl("sms:", "+15550100")),
      Href(TRUE, Url("http:", CdnNet, "/blob", "", "")),
      Href(TRUE, Url("https:", ExampleCom, "/logo.png", "", "")),
      Href(TRUE, Url("https:", CdnNet, "/clip.mp4", "", "")) }

\* the pages a link is hovered on (window.location.href: always parses)
Pages ==
    { Url("https:", ExampleCom, "/", "", ""),
      Url("http:", ExampleCom, "/", "", ""),
      Url("chrome-extension:", <<"abcdefgh">>, "/test.html", "", "") }

\* the anchor texts, each given by the domain-looking token the pattern of
\* checkAnchorTextMismatch finds in it first (lower-cased labels; <<>>: none)
AnchorTexts == { <<>>, ExampleCom, <<"paypal", "com">>, <<"docs", "example", "com">> }

\* the targets a Location header can name
Locations ==
    { Url("https:", ExampleCom, "/setup.exe", "", ""),
      Url("http:", CdnNet, "/next", "", "") }

\* new URL(href, pageOrigin): the URL, or a TypeError
ParseUrl(href) == IF href.parses THEN Some(href.url) ELSE Null

\* function extractDomain
extractDomain(url) == url.hostname

\* function normalizeAndGate: null, or {url, signals}
dangerousSchemes == {"javascript:", "data:", "file:", "vbscript:"}

\* a gate that forgets the vbscript: scheme
normalizeAndGateNoVbscript(href, pageOrigin) ==
    IF ParseUrl(href) = Null THEN Null
    ELSE IF href.url.protocol \in {"javascript:", "data:", "file:"} THEN Null
    ELSE Some([url |-> href.url, signals |-> <<>>])

normalizeAndGate(href, pageOrigin) ==
    IF ParseUrl(href) = Null THEN Null
    ELSE IF href.url.protocol \in dangerousSchemes THEN Null
    ELSE Some([url |-> href.url, signals |-> <<>>])

\* function isSamePageAnchor
isSamePageAnchor(url, pageOrigin) ==
    /\ url.hostname = pageOrigin.hostname
    /\ url.pathname = pageOrigin.pathname
    /\ url.hash # ""
    /\ url.search = pageOrigin.search

\* function detectHomograph, on a URL's hostname: the URL class serialises a
\* hostname in ASCII (punycode), so of the tests only 'xn--' can match
detectHomograph(domain) ==
    \E i \in 1..Len(domain) : domain[i] \in PunycodeLabels

\* String.prototype.replace(/^www\./, '') on a label list
StripWww(domain) ==
    IF Len(domain) >= 1 /\ domain[1] = "www" THEN Tail(domain) ELSE domain

\* extractTopLevel of checkAnchorTextMismatch
extractTopLevel(domain) ==
    IF Len(domain) >= 2 THEN SubSeq(domain, Len(domain) - 1, Len(domain)) ELSE domain

\* function checkAnchorTextMismatch: null, or {textDomain, linkDomain}
checkAnchorTextMismatch(anchorText, hrefDomain) ==
    IF anchorText = <<>> THEN Null
    ELSE LET normalizedHrefDomain == StripWww(hrefDomain)
             normalizedTextDomain == StripWww(anchorText)
         IN  IF normalizedTextDomain # normalizedHrefDomain
             THEN Some([textDomain |-> extractTopLevel(normalizedTextDomain),
                        linkDomain |-> extractTopLevel(normalizedHrefDomain)])
             ELSE Null

\* function checkHttpsDowngrade
checkHttpsDowngrade(targetUrl, pageOrigin) ==
    /\ pageOrigin.protocol = "https:" \/ pageOrigin.protocol = "chrome-extension:"
    /\ targetUrl.protocol = "http:"

\* lexical checks that also raise a signal when the anchor text names
\* another domain
performLexicalChecksMismatchSignal(url, anchorText, pageOrigin) ==
    [signals |->
        (IF detectHomograph(url.hostname)
         THEN <<RiskSignal(Amber, "Suspicious domain characters")>> ELSE <<>>)
        \o
        (IF checkAnchorTextMismatch(anchorText, url.hostname) # Null
         THEN <<RiskSignal(Amber, "Link text mismatch")>> ELSE <<>>)
        \o
        (IF checkHttpsDowngrade(url, pageOrigin)
         THEN <<RiskSignal(Amber, "HTTP (not secure)")>> ELSE <<>>),
     textMismatch |-> checkAnchorTextMismatch(anchorText, url.hostname)]

\* function performLexicalChecks
performLexicalChecks(url, anchorText, pageOrigin) ==
    [signals |->
        (IF detectHomograph(url.hostname)
         THEN <<RiskSignal(Amber, "Suspicious domain characters")>> ELSE <<>>)
        \o
        (IF checkHttpsDowngrade(url, pageOrigin)
         THEN <<RiskSignal(Amber, "HTTP (not secure)")>> ELSE <<>>),
     textMismatch |-> checkAnchorTextMismatch(anchorText, url.hostname)]

\* ------------------------------------------------------- header strings
\* the Content-Type header values of the model ("": no header)
ContentTypes ==
    {"", "application/pdf", "image/png", "video/mp4",
     "application/octet-stream", "Application/Octet-Stream", "application/zip"}

\* the Content-Disposition header values of the model ("": no header)
ContentDispositions == {"", "attachment; filename=f"}

\* String.prototype.toLowerCase on the header values of the model
ToLowerCase(str) ==
    IF str = "Application/Octet-Stream" THEN "application/octet-stream" ELSE str

\* String.prototype.includes on the header values of the model
Includes(str, sub) ==
    \/ str = sub
    \/ <<str, sub>> \in { <<"application/octet-stream", "octet-stream">>,
                          <<"attachment; filename=f", "attachment">> }

\* String.prototype.startsWith on the header values of the model
StartsWith(str, prefix) ==
    <<str, prefix>> \in { <<"image/png", "image/">>, <<"video/mp4", "video/">> }

downloadTypes ==
    {"application/octet-stream", "application/x-msdownload",
     "application/x-msdos-program", "application/zip",
     "application/x-zip-compressed", "application/x-rar-compressed",
     "application/x-7z-compressed", "application/x-tar", "application/x-gzip"}

\* a determineLinkTypeFromContentType that tests the Content-Type families
\* before Content-Disposition
determineLinkTypeCtFirst(contentType, contentDisposition) ==
    LET ct == ToLowerCase(contentType)
    IN  IF Includes(ct, "application/pdf") THEN PDF
        ELSE IF StartsWith(ct, "image/") THEN Image
        ELSE IF StartsWith(ct, "video/") \/ Includes(ct, "application/x-mpegurl") THEN Video
        ELSE IF \E t \in downloadTypes : Includes(ct, t) THEN Download
        ELSE IF Includes(ToLowerCase(contentDisposition), "attachment") THEN Download
        ELSE Webpage

\* function determineLinkTypeFromContentType
determineLinkTypeFromContentType(contentType, contentDisposition) ==
    LET ct == ToLowerCase(contentType)
    IN  IF Includes(ToLowerCase(contentDisposition), "attachment") THEN Download
        ELSE IF Includes(ct, "application/pdf") THEN PDF
        ELSE IF StartsWith(ct, "image/") THEN Image
        ELSE IF StartsWith(ct, "video/") \/ Includes(ct, "application/x-mpegurl") THEN Video
        ELSE IF \E t \in downloadTypes : Includes(ct, t) THEN Download
        ELSE Webpage

\* pathname.endsWith(ext) for the extension lists of guesslinkTypeFromUrl, and
\* pathname.includes('/pdf/'), on the (lower-case) pathnames of the model
PdfPaths == {"/report.pdf"}
ImagePaths == {"/logo.png"}
VideoPaths == {"/clip.mp4"}
DownloadPaths == {"/setup.exe"}

\* function guesslinkTypeFromUrl: a LinkType, or null
guesslinkTypeFromUrl(url) ==
    IF url.pathname \in PdfPaths THEN PDF
    ELSE IF url.pathname \in ImagePaths THEN Image
    ELSE IF url.pathname \in VideoPaths THEN Video
    ELSE IF url.pathname \in DownloadPaths THEN Download
    ELSE None

\* --------------------------------------------------------- magic bytes
\* the bodies a ranged GET can return (first bytes)
SniffBodies ==
    { <<>>,
      <<37, 80, 68, 70, 45>>,       \* %PDF-
      <<80, 75, 3, 4>>,             \* PK\x03\x04
      <<80, 75, 5, 6>>,             \* PK\x05\x06
      <<80, 75, 3>>,                \* PK\x03, three bytes only
      <<80, 75, 7, 8>>,             \* PK\x07\x08
      <<77, 90>>,                   \* MZ
      <<127, 69, 76, 70, 2>>,       \* \x7fELF
      <<60, 104, 116, 109, 108>> }  \* <html

\* a checkMagicBytes without the MZ (Windows PE) signature
checkMagicBytesNoMZ(bytes) ==
    IF Len(bytes) >= 4 /\ bytes[1] = 37 /\ bytes[2] = 80 /\ bytes[3] = 68 /\ bytes[4] = 70
    THEN PDF
    ELSE IF Len(bytes) >= 4 /\ bytes[1] = 80 /\ bytes[2] = 75 /\ (bytes[3] = 3 \/ bytes[3] = 5)
    THEN Download
    ELSE IF Len(bytes) >= 4 /\ bytes[1] = 127 /\ bytes[2] = 69 /\ bytes[3] = 76 /\ bytes[4] = 70
    THEN Download
    ELSE None

\* function checkMagicBytes: a LinkType, or null
checkMagicBytes(bytes) ==
    IF Len(bytes) >= 4 /\ bytes[1] = 37 /\ bytes[2] = 80 /\ bytes[3] = 68 /\ bytes[4] = 70
    THEN PDF
    ELSE IF Len(bytes) >= 4 /\ bytes[1] = 80 /\ bytes[2] = 75 /\ (bytes[3] = 3 \/ bytes[3] = 5)
    THEN Download
    ELSE IF Len(bytes) >= 2 /\ bytes[1] = 77 /\ bytes[2] = 90
    THEN Download
    ELSE IF Len(bytes) >= 4 /\ bytes[1] = 127 /\ bytes[2] = 69 /\ bytes[3] = 76 /\ bytes[4] = 70
    THEN Download
    ELSE None

\* ----------------------------------------------------- performHeadRequest
\* const maxRedirects of performHeadRequest
maxRedirects == 3

\* the template string `Redirects x${redirectCount}`
RedirectsReason(n) == "Redirects x" \o ToString(n)

\* interface HeadResult (contentLength: null, or the parsed number)
HeadResult(finalUrl, contentType, contentLength, contentDisposition, redirectCount, signals) ==
    [finalUrl |-> finalUrl, contentType |-> contentType,
     contentLength |-> contentLength, contentDisposition |-> contentDisposition,
     redirectCount |-> redirectCount, signals |-> signals]

\* the content type guessed when the server answers 405
FallbackContentType405(url) ==
    LET guessedType == guesslinkTypeFromUrl(url)
    IN  IF guessedType = PDF THEN "application/pdf"
        ELSE IF guessedType = Image THEN "image/jpeg"
        ELSE IF guessedType = Video THEN "video/mp4"
        ELSE IF guessedType = Download THEN "application/octet-stream"
        ELSE "text/html"

\* the content type guessed in the catch block and after the loop
FallbackContentTypeOnFailure(url) ==
    LET guessedType == guesslinkTypeFromUrl(url)
    IN  IF guessedType = PDF THEN "application/pdf"
        ELSE IF guessedType = Image THEN "image/jpeg"
        ELSE IF guessedType = Video THEN "video/mp4"
        ELSE "text/html"

\* A Location header: absent, not a URL (new URL throws), or a URL.
NoLocation == [present |-> FALSE, valid |-> FALSE, url |-> Url("", <<>>, "", "", "")]
BadLocation == [present |-> TRUE, valid |-> FALSE, url |-> Url("", <<>>, "", "", "")]
GoodLocation(url) == [present |-> TRUE, valid |-> TRUE, url |-> url]

\* the Content-Length header values of the model ("": no header)
ContentLengths == {"", "2048"}

\* parseInt(contentLength, 10) on the header values of the model
ParseInt(str) == IF str = "2048" THEN 2048 ELSE 0

\* What a HEAD fetch can settle with: a rejection (timeout abort, network
\* failure, a scheme fetch refuses), or a response.
HeadRejected ==
    [rejected |-> TRUE, status |-> 0, location |-> NoLocation,
     contentType |-> "", contentLength |-> "", contentDisposition |-> ""]
HeadResponse(status, location, contentType, contentLength, contentDisposition) ==
    [rejected |-> FALSE, status |-> status, location |-> location,
     contentType |-> contentType, contentLength |-> contentLength,
     contentDisposition |-> contentDisposition]

HeadOutcomes ==
    {HeadRejected}
    \cup {HeadResponse(405, NoLocation, "", "", "")}
    \cup {HeadResponse(301, loc, "", "", "") :
            loc \in {BadLocation} \cup {GoodLocation(u) : u \in Locations}}
    \cup {HeadResponse(301, NoLocation, "", "", "")}
    \cup {HeadResponse(404, NoLocation, ct, "", cd) :
            ct \in ContentTypes, cd \in ContentDispositions}
    \cup {HeadResponse(200, NoLocation, ct, cl, cd) :
            ct \in ContentTypes, cl \in ContentLengths, cd \in ContentDispositions}

\* One turn of the while loop of performHeadRequest, from the settling of the
\* fetch for currentUrl to the next fetch or the return:
\* result is null while the loop goes on to fetch currentUrl.
HeadTurn(result, currentUrl, redirectCount) ==
    [result |-> result, currentUrl |-> currentUrl, redirectCount |-> redirectCount]

\* a loop that reports only the hops it followed: the redirect it stops on
\* (cap exceeded, or a Location that is no URL) is not counted
performHeadRequestTurnCountsFollowed(currentUrl, redirectCount, signals, r) ==
    IF r.rejected
    THEN HeadTurn(Some(HeadResult(currentUrl, FallbackContentTypeOnFailure(currentUrl),
                                  Null, "", redirectCount, signals)),
                  currentUrl, redirectCount)
    ELSE IF r.status = 405
    THEN HeadTurn(Some(HeadResult(currentUrl, FallbackContentType405(currentUrl),
                                  Null, "", redirectCount, signals)),
                  currentUrl, redirectCount)
    ELSE IF r.status >= 300 /\ r.status < 400 /\ r.location.present
    THEN IF redirectCount + 1 > maxRedirects
         THEN HeadTurn(Some(HeadResult(currentUrl, FallbackContentTypeOnFailure(currentUrl),
                                       Null, "", redirectCount,
                                       Append(signals, RiskSignal(Amber, RedirectsReason(redirectCount + 1))))),
                       currentUrl, redirectCount)
         ELSE IF ~r.location.valid
         THEN HeadTurn(Some(HeadResult(currentUrl, FallbackContentTypeOnFailure(currentUrl),
                                       Null, "", redirectCount, signals)),
                       currentUrl, redirectCount)
         ELSE HeadTurn(Null, r.location.url, redirectCount + 1)
    ELSE HeadTurn(Some(HeadResult(currentUrl,
                                  IF r.contentType = "" THEN "text/html" ELSE r.contentType,
                                  IF r.contentLength = "" THEN Null ELSE Some(ParseInt(r.contentLength)),
                                  r.contentDisposition, redirectCount,
                                  IF redirectCount >= 2
                                  THEN Append(signals, RiskSignal(Amber, RedirectsReason(redirectCount)))
                                  ELSE signals)),
                  currentUrl, redirectCount)

\* a loop that stops following at redirectCount >= maxRedirects
performHeadRequestTurnCapEarly(currentUrl, redirectCount, signals, r) ==
    IF r.rejected
    THEN HeadTurn(Some(HeadResult(currentUrl, FallbackContentTypeOnFailure(currentUrl),
                                  Null, "", redirectCount, signals)),
                  currentUrl, redirectCount)
    ELSE IF r.status = 405
    THEN HeadTurn(Some(HeadResult(currentUrl, FallbackContentType405(currentUrl),
                                  Null, "", redirectCount, signals)),
                  currentUrl, redirectCount)
    ELSE IF r.status >= 300 /\ r.status < 400 /\ r.location.present
    THEN IF redirectCount + 1 >= maxRedirects
         THEN HeadTurn(Some(HeadResult(currentUrl, FallbackContentTypeOnFailure(currentUrl),
                                       Null, "", redirectCount + 1,
                                       Append(signals, RiskSignal(Amber, RedirectsReason(redirectCount + 1))))),
                       currentUrl, redirectCount + 1)
         ELSE IF ~r.location.valid
         THEN HeadTurn(Some(HeadResult(currentUrl, FallbackContentTypeOnFailure(currentUrl),
                                       Null, "", redirectCount + 1, signals)),
                       currentUrl, redirectCount + 1)
         ELSE HeadTurn(Null, r.location.url, redirectCount + 1)
    ELSE HeadTurn(Some(HeadResult(currentUrl,
                                  IF r.contentType = "" THEN "text/html" ELSE r.contentType,
                                  IF r.contentLength = "" THEN Null ELSE Some(ParseInt(r.contentLength)),
                                  r.contentDisposition, redirectCount,
                                  IF redirectCount >= 2
                                  THEN Append(signals, RiskSignal(Amber, RedirectsReason(redirectCount)))
                                  ELSE signals)),
                  currentUrl, redirectCount)

performHeadRequestTurn(currentUrl, redirectCount, signals, r) ==
    IF r.rejected
    THEN \* catch (error)
         HeadTurn(Some(HeadResult(currentUrl, FallbackContentTypeOnFailure(currentUrl),
                                  Null, "", redirectCount, signals)),
                  currentUrl, redirectCount)
    ELSE IF r.status = 405
    THEN HeadTurn(Some(HeadResult(currentUrl, FallbackContentType405(currentUrl),
                                  Null, "", redirectCount, signals)),
                  currentUrl, redirectCount)
    ELSE IF r.status >= 300 /\ r.status < 400 /\ r.location.present
    THEN IF redirectCount + 1 > maxRedirects
         THEN \* break, then the return after the loop
              HeadTurn(Some(HeadResult(currentUrl, FallbackContentTypeOnFailure(currentUrl),
                                       Null, "", redirectCount + 1,
                                       Append(signals, RiskSignal(Amber, RedirectsReason(redirectCount + 1))))),
                       currentUrl, redirectCount + 1)
         ELSE IF ~r.location.valid
         THEN \* new URL(location, currentUrl) throws: catch (error)
              HeadTurn(Some(HeadResult(currentUrl, FallbackContentTypeOnFailure(currentUrl),
                                       Null, "", redirectCount + 1, signals)),
                       currentUrl, redirectCount + 1)
         ELSE \* continue: redirectCount + 1 <= maxRedirects, the loop fetches again
              HeadTurn(Null, r.location.url, redirectCount + 1)
    ELSE HeadTurn(Some(HeadResult(currentUrl,
                                  IF r.contentType = "" THEN "text/html" ELSE r.contentType,
                                  IF r.contentLength = "" THEN Null ELSE Some(ParseInt(r.contentLength)),
                                  r.contentDisposition, redirectCount,
                                  IF redirectCount >= 2
                                  THEN Append(signals, RiskSignal(Amber, RedirectsReason(redirectCount)))
                                  ELSE signals)),
                  currentUrl, redirectCount)

\* ---------------------------------------------------------------- state
VARIABLES
    \* --- class CacheManager (one instance)
    now,            \* Date.now(), in ms
    memoryCache,    \* the Map: a function from the keys present to {data, timestamp}
    isInitialized,
    storage,        \* the durable slot chrome.storage.local[storageKey]: null, or the stored record
    hydration,      \* initialize(): "pending" | "read" | "done"
    hydrated,       \* what the storage.get of initialize() read (while hydration = "read")
    storageQueue,   \* the durable writes and removes in flight, oldest first
    failures,       \* durable operations that failed so far
    sets,           \* set() calls so far
    clears,         \* clear() calls so far
    lastSet,        \* per key: the entry the latest set() wrote, null before it and after clear()
    lastGet,        \* {key, at, result} when the latest step was a get(), else null
    \* --- the pure functions on bounded inputs
    puType, puSignals, puPrev, puOp, puPlan,
    \* --- the preflightCheck handler and performPreflightCheck
    pfPc,           \* "idle" | "head" | "sniff" | "responded"
    pfMessage,      \* {href, anchorText, pageOrigin}
    pfAllSignals,   \* allSignals of performPreflightCheck
    pfTextMismatch,
    pfCurrentUrl,   \* currentUrl of performHeadRequest
    pfRedirectCount,
    pfHeadResult,   \* null, or what performHeadRequest returned
    pfType,         \* type of performPreflightCheck before the sniff
    pfHeadLog,      \* the URLs a HEAD was issued for, in order
    pfHeadTrace,    \* how each HEAD settled: {status (0: rejected), hasLocation, validLocation}
    pfSniffLog,     \* the URLs a ranged GET was issued for
    pfSniffed,      \* null, or {rejected, bytes, type}: how the ranged GET settled and
                    \* what performSniff returned
    pfResponse,     \* null, or what sendResponse was called with
    pfFromCache,    \* the response was served from preflightCache
    pfRequests,     \* preflightCheck messages handled so far
    pfOverlap,      \* a preflightCheck for the same href that arrived while the
                    \* classification above was in flight: {pc, response}
    \* --- generatePreview (the cache variables are then previewCache)
    summarizerAvailable,    \* let summarizerAvailable
    promptAvailable,        \* let promptAvailable
    pvCalls,        \* per sender tab, its generatePreview call: the call's
                    \* position and, while it runs, its preflightResult
    pvCount,        \* generatePreview messages received so far
    pvFetched,      \* the bounded GET the latest step issued {url, maxBytes, call}, or null
    pvReturned,     \* null, or the call that returned in the latest step: {call,
                    \* updates, stored, response}
    \* --- performPartialFetch (one call)
    ptPc,           \* "idle", "fetch" (awaiting fetch), "read" (awaiting reader.read()),
                    \* "resolved", "rejected"
    ptMaxBytes,     \* parameter maxBytes
    ptTimeout,      \* const timeout, in ms
    ptTimer,        \* the timer of setTimeout: "none", "armed", "cleared", "fired"
    ptTotalLength,  \* let totalLength (the chunks pushed hold that many bytes)
    ptCancelled,    \* reader.cancel() was called
    ptOutcome,      \* null, or what the call settled with: {byteLength} or {error}
    \* --- setupOffscreenDocument (the calls of the previews running at once)
    offscreenDocumentCreated,   \* let offscreenDocumentCreated
    osDocument,     \* the extension's offscreen document: "none", "creating", "exists"
    osCalls,        \* per preview, the position of its setupOffscreenDocument call
    \* --- the content script of one page
    isExtensionEnabled,     \* let isExtensionEnabled
    csStored,       \* chrome.storage.local linkPreviewEnabled: "unset", "true", "false"
    csSettingRead,  \* the callback of the storage.get at the top of the script has run
    csToggle,       \* null, or the togglePreview message on its way to the page: <<enabled>>
    csToggles,      \* toggles by the user so far
    csPointer,      \* the link under the pointer, or "none"
    hoverTimeouts,  \* the Map: per link, null or the ms its timer has been pending
    activeLinks,    \* the Map, in insertion order: entries {link, previewElement,
                    \* preflightResult, shown}
    csRequests,     \* the preflightCheck messages awaiting their response (their links)
    csSent,         \* preflightCheck messages sent so far
    csUpdates       \* the links for whose result a previewUpdate is on its way

cacheVars == <<now, memoryCache, isInitialized, storage, hydration, hydrated,
               storageQueue, failures, sets, clears, lastSet, lastGet>>
puVars == <<puType, puSignals, puPrev, puOp, puPlan>>
pfVars == <<pfPc, pfMessage, pfAllSignals, pfTextMismatch, pfCurrentUrl,
            pfRedirectCount, pfHeadResult, pfType, pfHeadLog, pfHeadTrace,
            pfSniffLog, pfSniffed, pfResponse, pfFromCache, pfRequests,
            pfOverlap>>
pvVars == <<summarizerAvailable, promptAvailable, pvCalls, pvCount, pvFetched,
            pvReturned>>
ptVars == <<ptPc, ptMaxBytes, ptTimeout, ptTimer, ptTotalLength, ptCancelled, ptOutcome>>
osVars == <<offscreenDocumentCreated, osDocument, osCalls>>
csVars == <<isExtensionEnabled, csStored, csSettingRead, csToggle, csToggles, csPointer,
            hoverTimeouts, activeLinks, csRequests, csSent, csUpdates>>
vars == <<cacheVars, puVars, pfVars, pvVars, ptVars, osVars, csVars>>

\* ------------------------------------------------------------- bounds
MaxTicks == 2           \* clock steps in a run
MaxSets == 2            \* set() calls in a run
MaxFailures == 1        \* failing durable operations in a run
MaxClears == 1          \* clear() calls in a run
MaxSignals == 3         \* length of a signal list handed to scoreRisk
MaxRequests == 2        \* preflightCheck messages in a run
MaxPreviews == 2        \* generatePreview messages in a run

\* ------------------------------------------------------ class CacheManager
\* const CACHE_DURATION
CACHE_DURATION == 5 * 60 * 1000

StartTime == CACHE_DURATION

\* the clock advances in steps of half the lifetime of an entry
TickMs == CACHE_DURATION \div 2

Keys == {"k1", "k2"}
\* every set() of a run stores a value of its own
ValueOf(n) == IF n = 0 THEN "v1" ELSE IF n = 1 THEN "v2" ELSE "v3"
StoredValue == "v0"

Entry(data, timestamp) == [data |-> data, timestamp |-> timestamp]

\* Map.prototype.set / delete / has on a function
EmptyMap == [k \in {} |-> Entry("", 0)]
MapHas(m, k) == k \in DOMAIN m
MapSet(m, k, e) == [x \in DOMAIN m \cup {k} |-> IF x = k THEN e ELSE m[x]]
MapDelete(m, k) == [x \in DOMAIN m \ {k} |-> m[x]]

\* the entries of m that are not expired at time t
Unexpired(m, t) ==
    [x \in {k \in DOMAIN m : t - m[k].timestamp < CACHE_DURATION} |-> m[x]]

\* CacheManager.get: what it returns ...
\* a get that returns whatever the Map holds
GetReturnsNoTtl(m, key, t) ==
    IF MapHas(m, key) THEN Some(m[key]) ELSE Null

GetReturns(m, key, t) ==
    IF MapHas(m, key) /\ t - m[key].timestamp < CACHE_DURATION THEN Some(m[key]) ELSE Null

\* ... and what it leaves in the Map (the lazy eviction)
GetLeaves(m, key, t) ==
    IF MapHas(m, key) /\ ~(t - m[key].timestamp < CACHE_DURATION)
    THEN MapDelete(m, key) ELSE m

\* CacheManager.persistToStorage up to its await: the durable operations in
\* flight after it ran on Map m at time t
PersistToStorage(queue, m, initialized, t) ==
    IF ~initialized THEN queue
    ELSE Append(queue, [op |-> "set", payload |-> Unexpired(m, t)])

\* CacheManager.cleanup: the Map without its expired entries
Cleanup(m, t) == Unexpired(m, t)

\* ------------------------------------------------- idle values of each part
CacheIdle ==
    /\ now = StartTime
    /\ memoryCache = EmptyMap
    /\ isInitialized = FALSE
    /\ storage = Null
    /\ hydration = "pending"
    /\ hydrated = Null
    /\ storageQueue = <<>>
    /\ failures = 0
    /\ sets = 0
    /\ clears = 0
    /\ lastSet = [k \in {} |-> Null]
    /\ lastGet = Null

NoOp == [kind |-> "init", signal |-> RiskSignal(Green, "")]

PureIdle ==
    /\ puType = Webpage
    /\ puSignals = <<>>
    /\ puPrev = <<>>
    /\ puOp = NoOp
    /\ puPlan = Null

NoUrl == Url("", <<>>, "", "", "")

\* no second preflightCheck for the href is in flight
NoOverlap == [pc |-> "idle", response |-> Null]

PreflightIdle ==
    /\ pfPc = "idle"
    /\ pfMessage = Null
    /\ pfAllSignals = <<>>
    /\ pfTextMismatch = Null
    /\ pfCurrentUrl = NoUrl
    /\ pfRedirectCount = 0
    /\ pfHeadResult = Null
    /\ pfType = None
    /\ pfHeadLog = <<>>
    /\ pfHeadTrace = <<>>
    /\ pfSniffLog = <<>>
    /\ pfSniffed = Null
    /\ pfResponse = Null
    /\ pfFromCache = FALSE
    /\ pfRequests = 0
    /\ pfOverlap = NoOverlap

\* the tabs whose content script sends generatePreview messages
Tabs == {"tab1", "tab2"}

\* a generatePreview call that has not arrived
IdleCall == [pc |-> "idle", request |-> Null]

PreviewIdle ==
    /\ summarizerAvailable = None
    /\ promptAvailable = None
    /\ pvCalls = [tab \in Tabs |-> IdleCall]
    /\ pvCount = 0
    /\ pvFetched = Null
    /\ pvReturned = Null

FetchIdle ==
    /\ ptPc = "idle"
    /\ ptMaxBytes = 0
    /\ ptTimeout = 0
    /\ ptTimer = "none"
    /\ ptTotalLength = 0
    /\ ptCancelled = FALSE
    /\ ptOutcome = Null

\* the previews whose generateWebpagePreview / generatePDFPreview run at once
Previews == {"w1", "w2", "w3"}

OffscreenIdle ==
    /\ offscreenDocumentCreated = FALSE
    /\ osDocument = "none"
    /\ osCalls = [w \in Previews |-> "idle"]

\* the links of the page
Links == {"link1", "link2"}

\* the content script as it is loaded, with the setting that storage holds
ContentLoaded(stored) ==
    /\ isExtensionEnabled = TRUE
    /\ csStored = stored
    /\ csSettingRead = FALSE
    /\ csToggle = Null
    /\ csToggles = 0
    /\ csPointer = "none"
    /\ hoverTimeouts = [l \in Links |-> Null]
    /\ activeLinks = <<>>
    /\ csRequests = <<>>
    /\ csSent = 0
    /\ csUpdates = {}

ContentIdle == ContentLoaded("unset")

\* ------------------------------------------------------------- SpecPure
\* scoreRisk and decideFetchPlan on every signal list of up to MaxSignals
\* signals and every LinkType.
SignalReasons == {"r1", "r2"}
Signals == {RiskSignal(l, r) : l \in RiskLevel, r \in SignalReasons}

RECURSIVE SeqsUpTo(_, _)
SeqsUpTo(S, n) ==
    IF n = 0 THEN {<<>>}
    ELSE LET shorter == SeqsUpTo(S, n - 1)
         IN  shorter \cup {Append(q, x) : q \in {p \in shorter : Len(p) = n - 1}, x \in S}

\* Array.prototype.splice(i - 1, 0, x): x inserted so that it is the i-th element
InsertAt(q, i, x) == SubSeq(q, 1, i - 1) \o <<x>> \o SubSeq(q, i, Len(q))

\* the i-th and (i+1)-th elements exchanged
SwapAt(q, i) ==
    [j \in 1..Len(q) |-> IF j = i THEN q[i + 1] ELSE IF j = i + 1 THEN q[i] ELSE q[j]]

InitPure ==
    /\ puType = Webpage
    /\ puSignals \in SeqsUpTo(Signals, MaxSignals)
    /\ puPrev = puSignals
    /\ puOp = NoOp
    /\ puPlan = Null
    /\ CacheIdle /\ PreflightIdle /\ PreviewIdle /\ FetchIdle /\ OffscreenIdle /\ ContentIdle

\* one more signal is collected
PureAddSignal ==
    /\ Len(puSignals) < MaxSignals
    /\ puPlan = Null
    /\ \E x \in Signals, i \in 1..(Len(puSignals) + 1) :
         /\ puSignals' = InsertAt(puSignals, i, x)
         /\ puOp' = [kind |-> "add", signal |-> x]
    /\ puPrev' = puSignals
    /\ UNCHANGED <<puType, puPlan, cacheVars, pfVars, pvVars, ptVars, osVars, csVars>>

\* the same signals are collected in another order
PureReorder ==
    /\ puPlan = Null
    /\ \E i \in 1..(Len(puSignals) - 1) :
         /\ puSignals[i] # puSignals[i + 1]
         /\ puSignals' = SwapAt(puSignals, i)
    /\ puOp' = [kind |-> "reorder", signal |-> NoOp.signal]
    /\ puPrev' = puSignals
    /\ UNCHANGED <<puType, puPlan, cacheVars, pfVars, pvVars, ptVars, osVars, csVars>>

\* const { risk, reasons } = scoreRisk(allSignals); decideFetchPlan(type, risk)
PureDecide ==
    /\ puPlan = Null
    /\ \E type \in LinkType :
         LET scored == scoreRisk(puSignals)
         IN  /\ puType' = type
             /\ puPlan' = Some([type |-> type, risk |-> scored.risk,
                                reasons |-> scored.reasons,
                                fetchPlan |-> decideFetchPlan(type, scored.risk)])
    /\ UNCHANGED <<puSignals, puPrev, puOp, cacheVars, pfVars, pvVars, ptVars, osVars, csVars>>

NextPure == PureAddSignal \/ PureReorder \/ PureDecide

\* ------------------------------------------------- performPreflightCheck
\* interface PreflightResult; size, redirectCount and textMismatch are
\* optional. finalUrl is an href string. (videoPlatform is left out: no
\* property of this development reads it.)
PreflightResult(domain, type, risk, reasons, size, finalUrl, fetchPlan, redirectCount, textMismatch) ==
    [domain |-> domain, type |-> type, risk |-> risk, reasons |-> reasons,
     size |-> size, finalUrl |-> finalUrl, fetchPlan |-> fetchPlan,
     redirectCount |-> redirectCount, textMismatch |-> textMismatch]

\* the return of performPreflightCheck when normalizeAndGate returned null
GateBlockedResult(href) ==
    PreflightResult(<<"blocked">>, Blocked, Red, <<"Unsafe scheme">>, Null,
                    href, PlanBlocked, Null, Null)

\* a return for mailto: and tel: copied from the handler's degraded result
SchemeResultPartialGet(url, type, fallbackDomain) ==
    PreflightResult(IF url.hostname = <<>> THEN <<fallbackDomain>> ELSE url.hostname,
                    type, Amber, <<"Unable to check">>, Null, Href(TRUE, url),
                    PartialGet, Null, Null)

\* the returns for mailto: and tel:
SchemeResult(url, type, fallbackDomain) ==
    PreflightResult(IF url.hostname = <<>> THEN <<fallbackDomain>> ELSE url.hostname,
                    type, Green, <<>>, Null, Href(TRUE, url), NoFetch, Null, Null)

\* the return for a same-page anchor
AnchorResult(url) ==
    PreflightResult(extractDomain(url), Anchor, Green, <<>>, Null,
                    Href(TRUE, url), NoFetch, Null, Null)

\* the last return of performPreflightCheck
UnknownProtocolResult(url) ==
    PreflightResult(extractDomain(url), Blocked, Red, <<"Unknown protocol">>, Null,
                    Href(TRUE, url), PlanBlocked, Null, Null)

\* a type decision in which the first stage that matches wins: the headers
\* decide, and the URL extension is used only when they name no type
TypeBeforeSniffFirstMatch(headResult) ==
    LET type == determineLinkTypeFromContentType(headResult.contentType,
                                                 headResult.contentDisposition)
        urlBasedType == guesslinkTypeFromUrl(headResult.finalUrl)
    IN  IF type # Webpage THEN type
        ELSE IF urlBasedType # None THEN urlBasedType ELSE type

\* type of performPreflightCheck before the sniff: the Content-Type mapping,
\* overridden by the type the final URL's extension names
TypeBeforeSniff(headResult) ==
    LET type == determineLinkTypeFromContentType(headResult.contentType,
                                                 headResult.contentDisposition)
        urlBasedType == guesslinkTypeFromUrl(headResult.finalUrl)
    IN  IF urlBasedType # None THEN urlBasedType ELSE type

\* whether performPreflightCheck calls performSniff
\* a test that sniffs no download
NeedsSniffNever(type, headResult) == FALSE

NeedsSniff(type, headResult) ==
    type = Download /\ Includes(headResult.contentType, "octet-stream")

\* allSignals and type after the sniff returned sniffedType
SignalsAfterSniff(allSignals, sniffedType) ==
    IF sniffedType = Download
    THEN Append(allSignals, RiskSignal(Red, "Executable download"))
    ELSE allSignals

TypeAfterSniff(type, sniffedType) ==
    IF sniffedType # None THEN sniffedType ELSE type

\* the return of the http(s) branch
ClassifiedResult(headResult, type, allSignals, textMismatch) ==
    LET scored == scoreRisk(allSignals)
    IN  PreflightResult(extractDomain(headResult.finalUrl), type, scored.risk,
                        scored.reasons,
                        IF headResult.contentLength = Null \/ headResult.contentLength = Some(0)
                        THEN Null ELSE headResult.contentLength,
                        Href(TRUE, headResult.finalUrl),
                        decideFetchPlan(type, scored.risk),
                        Some(headResult.redirectCount), textMismatch)

\* what a ranged GET of performSniff can settle with: a rejection (timeout
\* abort, network failure, a failing body read), or a body
SniffOutcomes ==
    {[rejected |-> TRUE, bytes |-> <<>>]}
    \cup {[rejected |-> FALSE, bytes |-> b] : b \in SniffBodies}

\* function performSniff, from the settling of its fetch
performSniff(outcome) ==
    IF outcome.rejected THEN None ELSE checkMagicBytes(outcome.bytes)

\* The synchronous start of performPreflightCheck, up to its first await:
\* either it returns (done, with result) or it awaits performHeadRequest(url).
PreflightStart(href, anchorText, pageOrigin) ==
    LET normalized == normalizeAndGate(href, pageOrigin)
    IN  IF normalized = Null
        THEN [done |-> TRUE, result |-> GateBlockedResult(href), url |-> NoUrl,
              allSignals |-> <<>>, textMismatch |-> Null]
        ELSE
        LET url == normalized[1].url
            lexicalResult == performLexicalChecks(url, anchorText, pageOrigin)
            allSignals == normalized[1].signals \o lexicalResult.signals
        IN  IF url.protocol = "mailto:"
            THEN [done |-> TRUE, result |-> SchemeResult(url, Mailto, "email"), url |-> url,
                  allSignals |-> normalized[1].signals, textMismatch |-> Null]
            ELSE IF url.protocol = "tel:"
            THEN [done |-> TRUE, result |-> SchemeResult(url, Tel, "phone"), url |-> url,
                  allSignals |-> normalized[1].signals, textMismatch |-> Null]
            ELSE IF isSamePageAnchor(url, pageOrigin)
            THEN [done |-> TRUE, result |-> AnchorResult(url), url |-> url,
                  allSignals |-> normalized[1].signals, textMismatch |-> Null]
            ELSE IF url.protocol = "http:" \/ url.protocol = "https:"
            THEN [done |-> FALSE, result |-> GateBlockedResult(href), url |-> url,
                  allSignals |-> allSignals, textMismatch |-> lexicalResult.textMismatch]
            ELSE [done |-> TRUE, result |-> UnknownProtocolResult(url), url |-> url,
                  allSignals |-> allSignals, textMismatch |-> lexicalResult.textMismatch]

\* ------------------------------------------- the preflightCheck handler
Message(href, anchorText, pageOrigin) ==
    [href |-> href, anchorText |-> anchorText, pageOrigin |-> pageOrigin]

\* a handler that answers with an error, as the generatePreview handler's
\* catch does
RespondFailure(href, result, mem) ==
    /\ memoryCache' = mem
    /\ storageQueue' = storageQueue
    /\ pfResponse' = Some([success |-> FALSE, result |-> result])
    /\ pfFromCache' = FALSE
    /\ pfPc' = "responded"

\* a then-callback whose set merges into a stored entry: the new result is
\* stored with the reasons of the result already held for href
RespondMergesEntry(href, result, mem) ==
    /\ memoryCache' = IF MapHas(mem, href)
                      THEN MapSet(mem, href,
                                  Entry([result EXCEPT !.reasons = mem[href].data.reasons], now))
                      ELSE MapSet(mem, href, Entry(result, now))
    /\ storageQueue' = PersistToStorage(storageQueue, memoryCache', isInitialized, now)
    /\ pfResponse' = Some([success |-> TRUE, result |-> result])
    /\ pfFromCache' = FALSE
    /\ pfPc' = "responded"

\* a then-callback that, when the cache holds an entry for href, only updates
\* the risk of the stored result
RespondEditsInPlace(href, result, mem) ==
    /\ memoryCache' = IF MapHas(mem, href)
                      THEN [mem EXCEPT ![href].data.risk = result.risk]
                      ELSE MapSet(mem, href, Entry(result, now))
    /\ storageQueue' = PersistToStorage(storageQueue, memoryCache', isInitialized, now)
    /\ pfResponse' = Some([success |-> TRUE, result |-> result])
    /\ pfFromCache' = FALSE
    /\ pfPc' = "responded"

\* .then(async (result) => { await preflightCache.set(href, result);
\*                           sendResponse({ success: true, result }) })
\* (performPreflightCheck has no throw that escapes it, so the .catch of the
\* handler never runs)
Respond(href, result, mem) ==
    /\ memoryCache' = MapSet(mem, href, Entry(result, now))
    /\ storageQueue' = PersistToStorage(storageQueue, memoryCache', isInitialized, now)
    /\ pfResponse' = Some([success |-> TRUE, result |-> result])
    /\ pfFromCache' = FALSE
    /\ pfPc' = "responded"

\* A preflightCheck message arrives: the handler reads preflightCache and,
\* on a miss, runs performPreflightCheck up to its first await. A run handles
\* up to MaxRequests messages, one after the other, for one link (the same
\* href and anchor text), hovered on any page.
PreflightCheckMessageOn(hrefs, anchorTexts, pages) ==
    /\ pfPc = "idle" \/ (pfPc = "responded" /\ pfRequests < MaxRequests)
    /\ \E href \in hrefs, anchorText \in anchorTexts, pageOrigin \in pages :
         /\ pfPc = "responded" =>
               href = pfMessage[1].href /\ anchorText = pfMessage[1].anchorText
         /\ pfMessage' = Some(Message(href, anchorText, pageOrigin))
         /\ pfRequests' = pfRequests + 1
         /\ pfHeadResult' = Null /\ pfType' = None /\ pfSniffLog' = <<>>
         /\ pfSniffed' = Null /\ pfRedirectCount' = 0 /\ pfHeadTrace' = <<>>
         /\ LET cached == GetReturns(memoryCache, href, now)
                mem == GetLeaves(memoryCache, href, now)
                start == PreflightStart(href, anchorText, pageOrigin)
            IN  IF cached # Null
                THEN /\ pfResponse' = Some([success |-> TRUE, result |-> cached[1].data])
                     /\ pfFromCache' = TRUE
                     /\ pfPc' = "responded"
                     /\ memoryCache' = mem
                     /\ pfAllSignals' = <<>> /\ pfTextMismatch' = Null
                     /\ pfCurrentUrl' = NoUrl /\ pfHeadLog' = <<>>
                     /\ UNCHANGED storageQueue
                ELSE /\ pfAllSignals' = start.allSignals
                     /\ pfTextMismatch' = start.textMismatch
                     /\ IF start.done
                        THEN /\ Respond(href, start.result, mem)
                             /\ pfCurrentUrl' = NoUrl /\ pfHeadLog' = <<>>
                        ELSE \* await performHeadRequest(url): the first HEAD is issued
                             /\ pfPc' = "head"
                             /\ pfCurrentUrl' = start.url
                             /\ pfHeadLog' = <<start.url>>
                             /\ pfResponse' = Null
                             /\ pfFromCache' = FALSE
                             /\ memoryCache' = mem
                             /\ UNCHANGED storageQueue
    /\ UNCHANGED <<now, isInitialized, storage, hydration, hydrated, failures,
                   sets, clears, lastSet, lastGet, pfOverlap, puVars, pvVars, ptVars, osVars, csVars>>

PreflightCheckMessage == PreflightCheckMessageOn(Hrefs, AnchorTexts, Pages)

\* The HEAD fetch for currentUrl settles: one turn of the loop of
\* performHeadRequest; when it returns, performPreflightCheck goes on to the
\* sniff (a ranged GET is issued) or to its return and the response.
HeadSettlesOn(outcomes) ==
    /\ pfPc = "head"
    /\ \E r \in outcomes :
         LET turn == performHeadRequestTurn(pfCurrentUrl, pfRedirectCount, <<>>, r)
         IN  /\ pfHeadTrace' = Append(pfHeadTrace, [status |-> r.status,
                                                     hasLocation |-> r.location.present,
                                                     validLocation |-> r.location.valid])
             /\ pfRedirectCount' = turn.redirectCount
             /\ IF turn.result = Null
                THEN /\ pfCurrentUrl' = turn.currentUrl
                     /\ pfHeadLog' = Append(pfHeadLog, turn.currentUrl)
                     /\ UNCHANGED <<pfPc, pfAllSignals, pfHeadResult, pfType, pfSniffLog,
                                    pfResponse, pfFromCache, memoryCache, storageQueue>>
                ELSE LET headResult == turn.result[1]
                         allSignals == pfAllSignals \o headResult.signals
                         type == TypeBeforeSniff(headResult)
                     IN  /\ pfHeadResult' = turn.result
                         /\ pfAllSignals' = allSignals
                         /\ pfType' = type
                         /\ UNCHANGED <<pfCurrentUrl, pfHeadLog>>
                         /\ IF NeedsSniff(type, headResult)
                            THEN /\ pfPc' = "sniff"
                                 /\ pfSniffLog' = <<headResult.finalUrl>>
                                 /\ UNCHANGED <<pfResponse, pfFromCache, memoryCache, storageQueue>>
                            ELSE /\ Respond(pfMessage[1].href,
                                            ClassifiedResult(headResult, type, allSignals, pfTextMismatch),
                                            memoryCache)
                                 /\ UNCHANGED pfSniffLog
    /\ UNCHANGED <<pfMessage, pfTextMismatch, pfSniffed, pfRequests, pfOverlap,
                   now, isInitialized, storage, hydration, hydrated, failures,
                   sets, clears, lastSet, lastGet, puVars, pvVars, ptVars, osVars, csVars>>

HeadSettles == HeadSettlesOn(HeadOutcomes)

\* The ranged GET of performSniff settles: performPreflightCheck returns and
\* the handler stores the result and responds.
SniffSettlesAt(pc, outcomes) ==
    /\ pfPc = pc
    /\ \E o \in outcomes :
         LET sniffedType == performSniff(o)
             type == TypeAfterSniff(pfType, sniffedType)
             allSignals == SignalsAfterSniff(pfAllSignals, sniffedType)
         IN  /\ pfSniffed' = Some([rejected |-> o.rejected, bytes |-> o.bytes,
                                    type |-> sniffedType])
             /\ pfAllSignals' = allSignals
             /\ Respond(pfMessage[1].href,
                        ClassifiedResult(pfHeadResult[1], type, allSignals, pfTextMismatch),
                        memoryCache)
    /\ UNCHANGED <<pfMessage, pfTextMismatch, pfCurrentUrl, pfRedirectCount, pfHeadResult,
                   pfType, pfHeadLog, pfHeadTrace, pfSniffLog, pfRequests, pfOverlap,
                   now, isInitialized, storage, hydration, hydrated, failures,
                   sets, clears, lastSet, lastGet, puVars, pvVars, ptVars, osVars, csVars>>

SniffSettles == SniffSettlesAt("sniff", SniffOutcomes)

Init == CacheIdle /\ PureIdle /\ PreflightIdle /\ PreviewIdle /\ FetchIdle /\ OffscreenIdle /\ ContentIdle

Next == PreflightCheckMessage \/ HeadSettles \/ SniffSettles

\* --------------------------------------------------------- SpecOverlap
\* Two preflightCheck messages for one href whose handlings overlap: the
\* handler starts a classification for each message that misses the cache
\* (there is no coalescing of calls in flight). The first call is followed
\* step by step as above. Of the second call, only the handler's cache read
\* and the cache write of its then-callback touch shared state, so all it
\* does between the two (its HEAD, its sniff) is taken in one step when it
\* settles.

\* the links hovered in these runs: http(s) targets, seen from one page
OverlapHrefs ==
    { Href(TRUE, Url("https:", ExampleCom, "/report.pdf", "", "")),
      Href(TRUE, Url("http:", CdnNet, "/blob", "", "")) }
OverlapPages == { Url("https:", ExampleCom, "/", "", "") }

\* how the single HEAD of the second call settles
OverlapHeadOutcomes ==
    { HeadRejected,
      HeadResponse(200, NoLocation, "application/pdf", "2048", ""),
      HeadResponse(200, NoLocation, "application/octet-stream", "", "") }

OverlapCheckMessage == PreflightCheckMessageOn(OverlapHrefs, {<<>>}, OverlapPages)

\* The second message arrives while the first classification awaits the
\* network: the handler reads preflightCache and, on a miss, starts
\* performPreflightCheck.
OverlappingCheckArrives ==
    /\ pfPc \in {"head", "sniff"}
    /\ pfOverlap.pc = "idle"
    /\ LET href == pfMessage[1].href
           cached == GetReturns(memoryCache, href, now)
           mem == GetLeaves(memoryCache, href, now)
           start == PreflightStart(href, pfMessage[1].anchorText, pfMessage[1].pageOrigin)
       IN  IF cached # Null
           THEN /\ pfOverlap' = [pc |-> "responded",
                                 response |-> Some([success |-> TRUE, result |-> cached[1].data])]
                /\ memoryCache' = mem
                /\ UNCHANGED storageQueue
           ELSE IF start.done
           THEN /\ pfOverlap' = [pc |-> "responded",
                                 response |-> Some([success |-> TRUE, result |-> start.result])]
                /\ memoryCache' = MapSet(mem, href, Entry(start.result, now))
                /\ storageQueue' = PersistToStorage(storageQueue, memoryCache', isInitialized, now)
           ELSE /\ pfOverlap' = [pc |-> "running", response |-> Null]
                /\ memoryCache' = mem
                /\ UNCHANGED storageQueue
    /\ UNCHANGED <<pfPc, pfMessage, pfAllSignals, pfTextMismatch, pfCurrentUrl,
                   pfRedirectCount, pfHeadResult, pfType, pfHeadLog, pfHeadTrace,
                   pfSniffLog, pfSniffed, pfResponse, pfFromCache, pfRequests,
                   now, isInitialized, storage, hydration, hydrated, failures,
                   sets, clears, lastSet, lastGet, puVars, pvVars, ptVars, osVars, csVars>>

\* The second classification returns (its HEAD settled with r and, where it
\* sniffed, its ranged GET with o): the then-callback stores its result under
\* href and responds.
OverlappingCheckSettles ==
    /\ pfOverlap.pc = "running"
    /\ \E r \in OverlapHeadOutcomes, o \in SniffOutcomes :
         LET href == pfMessage[1].href
             start == PreflightStart(href, pfMessage[1].anchorText, pfMessage[1].pageOrigin)
             turn == performHeadRequestTurn(start.url, 0, <<>>, r)
             headResult == turn.result[1]
             type == TypeBeforeSniff(headResult)
             sniffedType == IF NeedsSniff(type, headResult) THEN performSniff(o) ELSE None
             result == ClassifiedResult(headResult, TypeAfterSniff(type, sniffedType),
                                        SignalsAfterSniff(start.allSignals \o headResult.signals,
                                                          sniffedType),
                                        start.textMismatch)
         IN  /\ turn.result # Null
             /\ memoryCache' = MapSet(memoryCache, href, Entry(result, now))
             /\ storageQueue' = PersistToStorage(storageQueue, memoryCache', isInitialized, now)
             /\ pfOverlap' = [pc |-> "responded",
                              response |-> Some([success |-> TRUE, result |-> result])]
    /\ UNCHANGED <<pfPc, pfMessage, pfAllSignals, pfTextMismatch, pfCurrentUrl,
                   pfRedirectCount, pfHeadResult, pfType, pfHeadLog, pfHeadTrace,
                   pfSniffLog, pfSniffed, pfResponse, pfFromCache, pfRequests,
                   now, isInitialized, storage, hydration, hydrated, failures,
                   sets, clears, lastSet, lastGet, puVars, pvVars, ptVars, osVars, csVars>>

NextOverlap ==
    \/ OverlapCheckMessage
    \/ HeadSettles
    \/ SniffSettles
    \/ OverlappingCheckArrives
    \/ OverlappingCheckSettles



\* ----------------------------------------------------------- SpecTimed
\* The suspension points of one classification with their timers. Each
\* fetch of performHeadRequest and the fetch of performSniff is awaited with
\* a 1.5 s timer set, which is cleared when the fetch resolves (the response
\* headers have arrived); performSniff then awaits response.arrayBuffer().
\* The server is under no obligation to answer: fairness is on the timer.

\* the ranged GET of performSniff resolves with the response headers:
\* clearTimeout, and the body is awaited
SniffResponds ==
    /\ pfPc = "sniff"
    /\ pfPc' = "sniffBody"
    /\ UNCHANGED <<pfMessage, pfAllSignals, pfTextMismatch, pfCurrentUrl, pfRedirectCount,
                   pfHeadResult, pfType, pfHeadLog, pfHeadTrace, pfSniffLog, pfSniffed,
                   pfResponse, pfFromCache, pfRequests, pfOverlap, cacheVars, puVars,
                   pvVars, ptVars, osVars, csVars>>

\* response.arrayBuffer() settles, with the body or a rejection
SniffBodySettles == SniffSettlesAt("sniffBody", SniffOutcomes)

\* the timer of the fetch being awaited fires: controller.abort() rejects
\* the fetch, which the catch of performHeadRequest or of performSniff takes
ProbeTimeout ==
    \/ HeadSettlesOn({HeadRejected})
    \/ SniffSettlesAt("sniff", {[rejected |-> TRUE, bytes |-> <<>>]})

NextTimed ==
    \/ OverlapCheckMessage
    \/ HeadSettles
    \/ SniffResponds \/ SniffBodySettles
    \/ ProbeTimeout


\* --------------------------------------------------------- SpecCache
\* One CacheManager, from its construction: the callers' get, set and clear,
\* the hydration started by the constructor, the durable operations in
\* flight (settled in the order they were issued), and the clock.

\* what the durable slot can hold when the service worker starts: nothing,
\* or the record a previous run stored, with entries that are still alive
\* (Fresh) or already expired (Stale)
Fresh == Entry(StoredValue, StartTime - TickMs)
Stale == Entry(StoredValue, StartTime - CACHE_DURATION)
InitialStorages ==
    { Null,
      Some([k \in {"k1"} |-> Fresh]),
      Some([k \in {"k1"} |-> Stale]),
      Some([k \in Keys |-> IF k = "k1" THEN Fresh ELSE Stale]) }

InitCache ==
    /\ now = StartTime
    /\ memoryCache = EmptyMap
    /\ isInitialized = FALSE
    /\ storage \in InitialStorages
    /\ hydration = "pending"
    /\ hydrated = Null
    /\ storageQueue = <<>>
    /\ failures = 0
    /\ sets = 0
    /\ clears = 0
    /\ lastSet = [k \in Keys |-> Null]
    /\ lastGet = Null
    /\ PureIdle /\ PreflightIdle /\ PreviewIdle /\ FetchIdle /\ OffscreenIdle /\ ContentIdle

\* a hydration that keeps the entries the Map already holds
HydrateIntoKeepNewer(m, stored, t) ==
    [x \in DOMAIN m \cup DOMAIN Unexpired(stored, t) |->
        IF x \in DOMAIN m THEN m[x] ELSE stored[x]]

\* the loop of initialize(): every stored entry that is not expired is put
\* into the Map, over whatever the Map holds under that key
HydrateInto(m, stored, t) ==
    [x \in DOMAIN m \cup DOMAIN Unexpired(stored, t) |->
        IF x \in DOMAIN Unexpired(stored, t) THEN stored[x] ELSE m[x]]

\* chrome.storage.local.get of initialize() reads the durable slot
HydrateRead ==
    /\ hydration = "pending"
    /\ hydration' = "read"
    /\ hydrated' = storage
    /\ UNCHANGED <<now, memoryCache, isInitialized, storage, storageQueue, failures,
                   sets, clears, lastSet, puVars, pfVars, pvVars, ptVars, osVars, csVars>>
    /\ lastGet' = Null

\* initialize() resumes with what was read
HydrateApply ==
    /\ hydration = "read"
    /\ hydration' = "done"
    /\ memoryCache' = IF hydrated = Null THEN memoryCache
                      ELSE HydrateInto(memoryCache, hydrated[1], now)
    /\ isInitialized' = TRUE
    /\ hydrated' = Null
    /\ UNCHANGED <<now, storage, storageQueue, failures, sets, clears, lastSet,
                   puVars, pfVars, pvVars, ptVars, osVars, csVars>>
    /\ lastGet' = Null

\* chrome.storage.local.get rejects: the catch of initialize()
HydrateFails ==
    /\ hydration = "pending"
    /\ failures < MaxFailures
    /\ failures' = failures + 1
    /\ hydration' = "done"
    /\ isInitialized' = TRUE
    /\ UNCHANGED <<now, memoryCache, storage, hydrated, storageQueue, sets, clears,
                   lastSet, puVars, pfVars, pvVars, ptVars, osVars, csVars>>
    /\ lastGet' = Null

\* CacheManager.get(key)
CacheGet ==
    /\ \E key \in Keys :
         /\ lastGet' = Some([key |-> key, at |-> now,
                             result |-> GetReturns(memoryCache, key, now)])
         /\ memoryCache' = GetLeaves(memoryCache, key, now)
    /\ UNCHANGED <<now, isInitialized, storage, hydration, hydrated, storageQueue,
                   failures, sets, clears, lastSet, puVars, pfVars, pvVars, ptVars, osVars, csVars>>

\* CacheManager.set(key, data), with persistToStorage up to its await
CacheSet ==
    /\ sets < MaxSets
    /\ sets' = sets + 1
    /\ \E key \in Keys :
         /\ memoryCache' = MapSet(memoryCache, key, Entry(ValueOf(sets), now))
         /\ lastSet' = [lastSet EXCEPT ![key] = Some(Entry(ValueOf(sets), now))]
    /\ storageQueue' = PersistToStorage(storageQueue, memoryCache', isInitialized, now)
    /\ lastGet' = Null
    /\ UNCHANGED <<now, isInitialized, storage, hydration, hydrated, failures, clears,
                   puVars, pfVars, pvVars, ptVars, osVars, csVars>>

\* CacheManager.clear(), up to its await
CacheClear ==
    /\ clears < MaxClears
    /\ clears' = clears + 1
    /\ memoryCache' = EmptyMap
    /\ storageQueue' = Append(storageQueue, [op |-> "remove", payload |-> EmptyMap])
    /\ lastSet' = [k \in Keys |-> Null]
    /\ lastGet' = Null
    /\ UNCHANGED <<now, isInitialized, storage, hydration, hydrated, failures, sets,
                   puVars, pfVars, pvVars, ptVars, osVars, csVars>>

\* the oldest durable operation in flight succeeds
StorageOpSucceeds ==
    /\ storageQueue # <<>>
    /\ storage' = IF Head(storageQueue).op = "set"
                  THEN Some(Head(storageQueue).payload) ELSE Null
    /\ storageQueue' = Tail(storageQueue)
    /\ UNCHANGED <<now, memoryCache, isInitialized, hydration, hydrated, failures,
                   sets, clears, lastSet, puVars, pfVars, pvVars, ptVars, osVars, csVars>>
    /\ lastGet' = Null

\* the oldest durable operation in flight fails: a failed write runs the
\* catch of persistToStorage (cleanup(), which persists again); a failed
\* remove is logged
StorageOpFails ==
    /\ storageQueue # <<>>
    /\ failures < MaxFailures
    /\ failures' = failures + 1
    /\ IF Head(storageQueue).op = "set"
       THEN /\ memoryCache' = Cleanup(memoryCache, now)
            /\ storageQueue' = PersistToStorage(Tail(storageQueue), memoryCache',
                                                isInitialized, now)
       ELSE /\ storageQueue' = Tail(storageQueue)
            /\ UNCHANGED memoryCache
    /\ UNCHANGED <<now, isInitialized, storage, hydration, hydrated, sets, clears,
                   lastSet, puVars, pfVars, pvVars, ptVars, osVars, csVars>>
    /\ lastGet' = Null

\* time passes
Tick ==
    /\ now < StartTime + MaxTicks * TickMs
    /\ now' = now + TickMs
    /\ UNCHANGED <<memoryCache, isInitialized, storage, hydration, hydrated,
                   storageQueue, failures, sets, clears, lastSet, puVars, pfVars, pvVars, ptVars, osVars, csVars>>
    /\ lastGet' = Null

NextCache ==
    \/ HydrateRead \/ HydrateApply \/ HydrateFails
    \/ CacheGet \/ CacheSet \/ CacheClear
    \/ StorageOpSucceeds \/ StorageOpFails
    \/ Tick


\* --------------------------------------------------------- SpecPersist
\* The persist task of one cache against a durable store whose writes can
\* fail any number of times in a row. A write that persistToStorage issues
\* from the catch of an earlier write (through cleanup()) is marked with the
\* number of the attempt it is; the code keeps no such count.
MaxAttempts == 3        \* attempts of one persist task that a run follows

\* which attempt of its persist task a durable operation in flight is
Attempt(operation) ==
    IF "attempt" \in DOMAIN operation THEN operation.attempt ELSE 1

\* chrome.storage.local.set of the oldest write in flight rejects: the catch
\* of persistToStorage awaits cleanup(), which deletes the expired entries
\* and awaits persistToStorage(), which issues the next write
StorageWriteFails ==
    /\ storageQueue # <<>>
    /\ Head(storageQueue).op = "set"
    /\ Attempt(Head(storageQueue)) < MaxAttempts
    /\ memoryCache' = Cleanup(memoryCache, now)
    /\ LET queue == PersistToStorage(Tail(storageQueue), memoryCache', isInitialized, now)
       IN  storageQueue' =
               IF Len(queue) = Len(storageQueue)
               THEN [queue EXCEPT ![Len(queue)] =
                        [op |-> "set", payload |-> queue[Len(queue)].payload,
                         attempt |-> Attempt(Head(storageQueue)) + 1]]
               ELSE queue
    /\ lastGet' = Null
    /\ UNCHANGED <<now, isInitialized, storage, hydration, hydrated, failures, sets,
                   clears, lastSet, puVars, pfVars, pvVars, ptVars, osVars, csVars>>

NextPersist ==
    \/ HydrateRead \/ HydrateApply
    \/ CacheSet
    \/ StorageOpSucceeds \/ StorageWriteFails
    \/ Tick


\* ----------------------------------------------------------- SpecFetch
\* One call of performPartialFetch(url, maxBytes) against a server that
\* answers as it likes and can stop answering at any point: the steps of the
\* server are under no fairness condition, the timer's is.

\* the byte budgets generatePreview calls it with (webpage, PDF, image)
Budgets == {49152, 2 * 1024 * 1024, 5 * 1024 * 1024}

\* the sizes of the chunks reader.read() delivers
ChunkSizes == {16384, 65536}

\* the responses of the server: status and whether response.body is set
FetchResponses == [status : {200, 404, 999}, body : BOOLEAN]

Resolved(byteLength) == Some([resolved |-> TRUE, byteLength |-> byteLength, error |-> ""])
Rejected(error) == Some([resolved |-> FALSE, byteLength |-> 0, error |-> error])

\* performPartialFetch is called: the timer is set and the GET is issued
PartialFetchCalled ==
    /\ ptPc = "idle"
    /\ \E maxBytes \in Budgets :
         /\ ptMaxBytes' = maxBytes
         /\ ptTimeout' = IF maxBytes > 500000 THEN 8000 ELSE 3000
    /\ ptTimer' = "armed"
    /\ ptPc' = "fetch"
    /\ UNCHANGED <<ptTotalLength, ptCancelled, ptOutcome, cacheVars, puVars, pfVars, pvVars, osVars, csVars>>

\* fetch resolves with the response headers: clearTimeout, the status and
\* body tests, and the first reader.read() of the loop
PartialFetchResponds ==
    /\ ptPc = "fetch"
    /\ ptTimer' = "cleared"
    /\ \E response \in FetchResponses :
         IF response.status = 999
         THEN ptPc' = "rejected" /\ ptOutcome' = Rejected("HTTP 999 - Cloudflare protection")
         ELSE IF response.status \notin 200..299
         THEN ptPc' = "rejected" /\ ptOutcome' = Rejected("HTTP 404")
         ELSE IF ~response.body
         THEN ptPc' = "rejected" /\ ptOutcome' = Rejected("No response body")
         ELSE IF ptTotalLength < ptMaxBytes
         THEN ptPc' = "read" /\ UNCHANGED ptOutcome
         ELSE ptPc' = "resolved" /\ ptOutcome' = Resolved(ptTotalLength)
    /\ UNCHANGED <<ptMaxBytes, ptTimeout, ptTotalLength, ptCancelled, cacheVars, puVars,
                   pfVars, pvVars, osVars, csVars>>

\* fetch rejects with a network error: the catch clears the timer and rethrows
PartialFetchRejects ==
    /\ ptPc = "fetch"
    /\ ptTimer' = "cleared"
    /\ ptPc' = "rejected"
    /\ ptOutcome' = Rejected("Failed to fetch")
    /\ UNCHANGED <<ptMaxBytes, ptTimeout, ptTotalLength, ptCancelled, cacheVars, puVars,
                   pfVars, pvVars, osVars, csVars>>

\* the timer fires after ptTimeout ms: controller.abort() rejects what the
\* call awaits with an AbortError, which the catch turns into the timeout
\* error
PartialFetchTimeout ==
    /\ ptTimer = "armed"
    /\ ptTimer' = "fired"
    /\ IF ptPc \in {"fetch", "read"}
       THEN ptPc' = "rejected" /\ ptOutcome' = Rejected("Request timed out")
       ELSE UNCHANGED <<ptPc, ptOutcome>>
    /\ UNCHANGED <<ptMaxBytes, ptTimeout, ptTotalLength, ptCancelled, cacheVars, puVars,
                   pfVars, pvVars, osVars, csVars>>

\* reader.read() delivers a chunk: it is pushed whole, and the loop stops
\* (with reader.cancel()) once totalLength has reached maxBytes; the bytes
\* returned are the totalLength bytes of all the chunks pushed
ReadChunk ==
    /\ ptPc = "read"
    /\ \E length \in ChunkSizes :
         /\ ptTotalLength' = ptTotalLength + length
         /\ IF ptTotalLength' >= ptMaxBytes
            THEN /\ ptCancelled' = TRUE
                 /\ ptPc' = "resolved"
                 /\ ptOutcome' = Resolved(ptTotalLength')
            ELSE UNCHANGED <<ptCancelled, ptPc, ptOutcome>>
    /\ UNCHANGED <<ptMaxBytes, ptTimeout, ptTimer, cacheVars, puVars, pfVars, pvVars, osVars, csVars>>

\* reader.read() reports the end of the body
ReadDone ==
    /\ ptPc = "read"
    /\ ptPc' = "resolved"
    /\ ptOutcome' = Resolved(ptTotalLength)
    /\ UNCHANGED <<ptMaxBytes, ptTimeout, ptTimer, ptTotalLength, ptCancelled, cacheVars,
                   puVars, pfVars, pvVars, osVars, csVars>>

\* reader.read() rejects (the connection breaks): the catch rethrows
ReadFails ==
    /\ ptPc = "read"
    /\ ptPc' = "rejected"
    /\ ptOutcome' = Rejected("network error")
    /\ UNCHANGED <<ptMaxBytes, ptTimeout, ptTimer, ptTotalLength, ptCancelled, cacheVars,
                   puVars, pfVars, pvVars, osVars, csVars>>

NextFetch ==
    \/ PartialFetchCalled
    \/ PartialFetchResponds \/ PartialFetchRejects
    \/ PartialFetchTimeout
    \/ ReadChunk \/ ReadDone \/ ReadFails


\* ---------------------------------------------------------- SpecPreview
\* The generatePreview handler on the preflightResult of the message (any
\* type, risk and fetch plan: the handler does not validate it), with the
\* cache variables standing for previewCache after its hydration, the
\* availability of the two generative capabilities changing at any time,
\* and the calls of two tabs in flight at once (a tab sends its next message
\* when its call has returned).

PreviewUrl == "https://example.com/target"

\* the fields of the preflightResult that generatePreview and
\* generateDownloadPreview read
PreviewRequest(type, risk, fetchPlan) ==
    [type |-> type, risk |-> risk, fetchPlan |-> fetchPlan, finalUrl |-> PreviewUrl,
     reasons |-> IF risk = Green THEN <<>> ELSE <<"signal">>]

PreviewRequests ==
    {PreviewRequest(t, r, f) : t \in LinkType, r \in RiskLevel, f \in FetchPlan}

\* the values of summarizerAvailable and promptAvailable (None is null, the
\* value before the check at start-up, and stands for 'unavailable' after it:
\* the code tells them apart nowhere)
Availability == {None, "available", "downloading"}

\* a shouldProcess that does not look at the fetch plan of a page, PDF or image
shouldProcessAnyPlan(type, fetchPlan) ==
    \/ type \in {Webpage, PDF, Image}
    \/ type = Download /\ fetchPlan = HeadOnly

\* const shouldProcess
shouldProcess(type, fetchPlan) ==
    \/ type \in {Webpage, PDF, Image} /\ fetchPlan = PartialGet
    \/ type = Download /\ fetchPlan = HeadOnly

\* const aiAvailable
aiAvailable(summarizer, prompt) == summarizer = "available" \/ prompt = "available"

\* SHA-256 in hex, taken as collision free
generateHash(data) == "sha256:" \o data

\* const cacheKey
cacheKey(r) == generateHash(r.finalUrl \o r.type \o r.fetchPlan)

\* the maxBytes that generatePreview passes to performPartialFetch
maxBytesOf(type) ==
    IF type = Webpage THEN 49152
    ELSE IF type = PDF THEN 2 * 1024 * 1024
    ELSE 5 * 1024 * 1024

\* what the generative models and the parsers can give back
Texts == {"", "text"}
Outlines == {<<>>, <<"heading">>}
ImageDataUrl == "data:image/png;base64"

\* the object handed to previewCache.set: a field is null when it is absent
Artifact(summary, overview, outline, imageDescription, imageUrl) ==
    [summary |-> summary, overview |-> overview, outline |-> outline,
     imageDescription |-> imageDescription, imageUrl |-> imageUrl]

\* the updates handed to onUpdate
UnavailableUpdate(reason) == [aiAvailable |-> FALSE, reason |-> reason]

CachedUpdate(r, data) ==
    [aiAvailable |-> TRUE, cached |-> TRUE, outline |-> data.outline,
     overview |-> data.overview, imageDescription |-> data.imageDescription,
     imageUrl |-> data.imageUrl,
     summary |-> IF r.type = PDF /\ data.summary \notin {Null, Some("")}
                 THEN data.summary ELSE Null]

\* the errors performPartialFetch rejects with
FetchErrors ==
    {"HTTP 999 - Cloudflare protection", "HTTP 404", "HTTP 500", "Failed to fetch",
     "Request timed out"}

\* errorMessage.includes(needle) on these errors
ErrorIncludes(errorMessage, needle) ==
    <<errorMessage, needle>> \in
        { <<"HTTP 999 - Cloudflare protection", "HTTP 999">>,
          <<"HTTP 999 - Cloudflare protection", "Cloudflare protection">>,
          <<"HTTP 404", "HTTP 404">>,
          <<"Failed to fetch", "Failed to fetch">>,
          <<"Request timed out", "timed out">> }

CloudflareReason ==
    "This site is protected by Cloudflare and cannot be previewed. Basic information is still available."

\* a catch that does not know the timeout message
CatchUpdateNoTimeout(errorMessage) ==
    IF \/ ErrorIncludes(errorMessage, "HTTP 999")
       \/ ErrorIncludes(errorMessage, "Cloudflare protection")
    THEN UnavailableUpdate(CloudflareReason)
    ELSE IF \E needle \in {"HTTP 404", "HTTP 403", "HTTP 410", "Failed to fetch",
                           "CORS"} : ErrorIncludes(errorMessage, needle)
    THEN [aiAvailable |-> TRUE, clearLoading |-> TRUE]
    ELSE [aiAvailable |-> TRUE, error |-> "Preview unavailable"]

\* the catch of generatePreview
CatchUpdate(errorMessage) ==
    IF \/ ErrorIncludes(errorMessage, "HTTP 999")
       \/ ErrorIncludes(errorMessage, "Cloudflare protection")
    THEN UnavailableUpdate(CloudflareReason)
    ELSE IF \E needle \in {"HTTP 404", "HTTP 403", "HTTP 410", "Failed to fetch",
                           "CORS", "timed out"} : ErrorIncludes(errorMessage, needle)
    THEN [aiAvailable |-> TRUE, clearLoading |-> TRUE]
    ELSE [aiAvailable |-> TRUE, error |-> "Preview unavailable"]

\* a call whose generatePreview has returned
DoneCall == [pc |-> "done", request |-> Null]

\* what a step of a call leaves: the call, the updates it sent if it
\* returned in this step (null if it is still running), the artifact it
\* stored and the bounded GET it issued
Returned(updates, stored) ==
    [call |-> DoneCall, returned |-> Some(updates), stored |-> stored, fetch |-> Null]
Running(call, pc, fetch) ==
    [call |-> [call EXCEPT !.pc = pc], returned |-> Null, stored |-> Null, fetch |-> fetch]

\* generatePreview from its entry to the await of generateHash
generatePreviewStart(r, summarizer, prompt) ==
    IF r.risk = Red THEN Returned(<<UnavailableUpdate("High risk link")>>, Null)
    ELSE IF ~shouldProcess(r.type, r.fetchPlan) THEN Returned(<<>>, Null)
    ELSE IF ~aiAvailable(summarizer, prompt)
    THEN Returned(<<UnavailableUpdate(
             IF summarizer = "downloading" \/ prompt = "downloading"
             THEN "AI models downloading..." ELSE "AI features not available")>>, Null)
    ELSE Running([pc |-> "idle", request |-> Some(r)], "hash", Null)

\* generatePreview from the cache lookup to its next await
generatePreviewLookup(call, cached, prompt) ==
    LET r == call.request[1]
    IN  IF cached # Null THEN Returned(<<CachedUpdate(r, cached[1].data)>>, Null)
        ELSE IF r.type = Download
        THEN IF prompt # "available" THEN Returned(<<>>, Null)
             ELSE Running(call, "download", Null)
        ELSE IF r.type \in {Webpage, PDF, Image}
        THEN Running(call, "fetch",
                     Some([url |-> r.finalUrl, maxBytes |-> maxBytesOf(r.type)]))
        ELSE Returned(<<>>, Null)

\* the catch of generatePreview on a rejected performPartialFetch, and the
\* strategy that goes on when it resolved
generatePreviewFetched(call, outcome) ==
    IF outcome = "ok" THEN Running(call, "generate", Null)
    ELSE Returned(<<CatchUpdate(outcome)>>, Null)

\* a step of call i with the result after: the call table and what the
\* latest step sent and fetched
PreviewStep(i, after) ==
    /\ pvCalls' = [pvCalls EXCEPT ![i] = after.call]
    /\ pvFetched' = IF after.fetch = Null THEN Null
                    ELSE Some([url |-> after.fetch[1].url,
                               maxBytes |-> after.fetch[1].maxBytes, call |-> i])
    /\ pvReturned' = IF after.returned = Null THEN Null
                     ELSE Some([call |-> i, updates |-> after.returned[1],
                                stored |-> after.stored,
                                response |-> [success |-> TRUE]])

\* previewCache.set(cacheKey, artifact), with a durable write that succeeds
\* at once (the writes in flight and their failures are SpecCache's)
PreviewCacheSet(key, artifact) ==
    /\ memoryCache' = MapSet(memoryCache, key, Entry(artifact, now))
    /\ storage' = LET written == PersistToStorage(<<>>, memoryCache', isInitialized, now)
                  IN  IF written = <<>> THEN storage ELSE Some(written[1].payload)

\* what previewCache can hold when the first message arrives: nothing, or
\* the expired overview of an earlier webpage preview
EarlierOverview == Artifact(Some(""), Some("text"), Null, Null, Null)
InitialPreviewCaches ==
    { EmptyMap,
      [k \in {cacheKey(PreviewRequest(Webpage, Green, PartialGet))} |->
          Entry(EarlierOverview, StartTime - CACHE_DURATION)] }

InitPreview ==
    /\ now = StartTime
    /\ memoryCache \in InitialPreviewCaches
    /\ isInitialized = TRUE
    /\ storage = Null
    /\ hydration = "done"
    /\ hydrated = Null
    /\ storageQueue = <<>>
    /\ failures = 0
    /\ sets = 0
    /\ clears = 0
    /\ lastSet = [k \in {} |-> Null]
    /\ lastGet = Null
    /\ PureIdle /\ PreflightIdle /\ PreviewIdle /\ FetchIdle /\ OffscreenIdle /\ ContentIdle

\* the checks of the availability at start-up and the download handlers
SummarizerAvailabilityChanges ==
    /\ \E a \in Availability \ {summarizerAvailable} : summarizerAvailable' = a
    /\ pvFetched' = Null /\ pvReturned' = Null
    /\ UNCHANGED <<promptAvailable, pvCalls, pvCount, cacheVars, puVars, pfVars, ptVars, osVars, csVars>>

PromptAvailabilityChanges ==
    /\ \E a \in Availability \ {promptAvailable} : promptAvailable' = a
    /\ pvFetched' = Null /\ pvReturned' = Null
    /\ UNCHANGED <<summarizerAvailable, pvCalls, pvCount, cacheVars, puVars, pfVars, ptVars, osVars, csVars>>

\* the tabs that have no call in flight
FreeTabs == {tab \in Tabs : pvCalls[tab].pc \in {"idle", "done"}}

\* onMessage generatePreview: the handler and generatePreview up to its
\* first await (the tabs are interchangeable: the message is taken to come
\* from tab1 when tab1 has no call in flight)
GeneratePreviewMessageOn(requests) ==
    /\ pvCount < MaxPreviews
    /\ pvCount' = pvCount + 1
    /\ \E tab \in FreeTabs, r \in requests :
         /\ tab = "tab1" \/ "tab1" \notin FreeTabs
         /\ PreviewStep(tab, generatePreviewStart(r, summarizerAvailable, promptAvailable))
    /\ UNCHANGED <<summarizerAvailable, promptAvailable, cacheVars, puVars, pfVars, ptVars, osVars, csVars>>

GeneratePreviewMessage == GeneratePreviewMessageOn(PreviewRequests)

\* the hash is ready: the lookup in previewCache and what follows it
PreviewLookup ==
    /\ \E i \in Tabs :
         /\ pvCalls[i].pc = "hash"
         /\ LET r == pvCalls[i].request[1]
                key == cacheKey(r)
            IN  /\ memoryCache' = GetLeaves(memoryCache, key, now)
                /\ PreviewStep(i, generatePreviewLookup(pvCalls[i],
                                   GetReturns(memoryCache, key, now), promptAvailable))
    /\ UNCHANGED <<summarizerAvailable, promptAvailable, pvCount, now, isInitialized,
                   storage, hydration, hydrated, storageQueue, failures, sets, clears,
                   lastSet, lastGet, puVars, pfVars, ptVars, osVars, csVars>>

\* what the per-type strategy of generatePreview emits and stores once the
\* bytes are there: the parser, the session or the prompt may fail (no
\* update from that step), and a model may answer with the empty string
OverviewUpdate(overview) == [aiAvailable |-> TRUE, overview |-> Some(overview)]
OutlineUpdate(outline) == [aiAvailable |-> TRUE, outline |-> Some(outline)]
SummaryUpdate(summary) == [aiAvailable |-> TRUE, summary |-> Some(summary)]
ImageUpdate(description, imageUrl) ==
    [aiAvailable |-> TRUE, imageDescription |-> Some(description), imageUrl |-> Some(imageUrl)]
DownloadUpdate(overview, riskNote) ==
    [aiAvailable |-> TRUE, overview |-> Some(overview),
     riskNote |-> IF riskNote = "" THEN Null ELSE Some(riskNote)]

Generated(updates, artifact) == [updates |-> updates, artifact |-> artifact]

\* generateWebpagePreview and the Webpage branch
WebpageOutcomes(prompt) ==
    {Generated(<<>>, Null)} \cup
    {Generated(<<OverviewUpdate(o)>>,
               IF o # "" THEN Some(Artifact(Some(""), Some(o), Null, Null, Null)) ELSE Null) :
        o \in IF prompt = "available" THEN Texts ELSE {}}

\* generatePDFPreview and the PDF branch
PDFOutcomes(summarizer, prompt) ==
    LET outlineSteps == {Null} \cup {Some(o) : o \in IF prompt = "available" THEN Outlines ELSE {}}
        summarySteps == {Null} \cup {Some(t) : t \in IF summarizer = "available" THEN Texts ELSE {}}
        outlineOf(step) == IF step = Null THEN <<>> ELSE step[1]
        summaryOf(step) == IF step = Null THEN "" ELSE step[1]
    IN  {Generated(
            (IF os = Null THEN <<>> ELSE <<OutlineUpdate(os[1])>>) \o
            (IF ss = Null THEN <<>> ELSE <<SummaryUpdate(ss[1])>>),
            IF Len(outlineOf(os)) > 0 \/ summaryOf(ss) # ""
            THEN Some(Artifact(Some(summaryOf(ss)), Null, Some(outlineOf(os)), Null, Null))
            ELSE Null) : os \in outlineSteps, ss \in summarySteps}

\* generateImageDescription and the Image branch
ImageOutcomes(prompt) ==
    {Generated(<<ImageUpdate(d, ImageDataUrl)>>,
               Some(Artifact(Some(""), Null, Null, Some(d), Some(ImageDataUrl)))) :
        d \in IF prompt = "available" THEN Texts ELSE {""}}

\* generateDownloadPreview and the Download branch
DownloadOutcomes(r) ==
    {Generated(IF o # "" \/ n # "" THEN <<DownloadUpdate(o, n)>> ELSE <<>>,
               IF o # "" \/ n # "" THEN Some(Artifact(Some(o), Some(o), Null, Null, Null))
               ELSE Null) :
        o \in Texts,
        n \in IF Len(r.reasons) > 0 \/ r.risk # Green THEN Texts ELSE {""}}

\* the call returns with what was generated
PreviewReturns(i, generated) ==
    /\ PreviewStep(i, Returned(generated.updates, generated.artifact))
    /\ IF generated.artifact = Null
       THEN UNCHANGED <<memoryCache, storage>>
       ELSE PreviewCacheSet(cacheKey(pvCalls[i].request[1]), generated.artifact[1])

\* performPartialFetch settles
PreviewFetchSettles ==
    /\ \E i \in Tabs, outcome \in {"ok"} \cup FetchErrors :
         /\ pvCalls[i].pc = "fetch"
         /\ PreviewStep(i, generatePreviewFetched(pvCalls[i], outcome))
    /\ UNCHANGED <<summarizerAvailable, promptAvailable, pvCount, cacheVars, puVars,
                   pfVars, ptVars, osVars, csVars>>

\* the Webpage, PDF or Image strategy runs to the end of generatePreview
PreviewGenerateSettles ==
    /\ \E i \in Tabs :
         /\ pvCalls[i].pc = "generate"
         /\ LET type == pvCalls[i].request[1].type
            IN  \E generated \in
                    IF type = Webpage THEN WebpageOutcomes(promptAvailable)
                    ELSE IF type = PDF THEN PDFOutcomes(summarizerAvailable, promptAvailable)
                    ELSE ImageOutcomes(promptAvailable) :
                  PreviewReturns(i, generated)
    /\ UNCHANGED <<summarizerAvailable, promptAvailable, pvCount, now,
                   isInitialized, storageQueue, hydration, hydrated, failures, sets,
                   clears, lastSet, lastGet, puVars, pfVars, ptVars, osVars, csVars>>

\* generateDownloadPreview runs to the end of generatePreview
PreviewDownloadSettles ==
    /\ \E i \in Tabs :
         /\ pvCalls[i].pc = "download"
         /\ \E generated \in DownloadOutcomes(pvCalls[i].request[1]) :
              PreviewReturns(i, generated)
    /\ UNCHANGED <<summarizerAvailable, promptAvailable, pvCount, now,
                   isInitialized, storageQueue, hydration, hydrated, failures, sets,
                   clears, lastSet, lastGet, puVars, pfVars, ptVars, osVars, csVars>>

NextPreview ==
    \/ GeneratePreviewMessage \/ PreviewLookup
    \/ PreviewFetchSettles \/ PreviewGenerateSettles \/ PreviewDownloadSettles
    \/ SummarizerAvailabilityChanges \/ PromptAvailabilityChanges

\* ------------------------------------------------------------ SpecImage
\* The Image branch of generatePreview with its two awaits apart: the
\* FileReader promise that builds the data URL, then
\* generateImageDescription. The updates a step hands to onUpdate are those
\* of pvReturned; a step of a call that goes on running hands over none.

\* the preflightResults of image links
ImageRequests == {PreviewRequest(Image, risk, PartialGet) : risk \in RiskLevel}

ImagePreviewMessage == GeneratePreviewMessageOn(ImageRequests)

\* reader.onloadend: the promise of the data URL resolves, and
\* generateImageDescription(blob) is called and awaited; onUpdate is not
\* called here
ImageDataUrlBuilt ==
    /\ \E i \in Tabs :
         /\ pvCalls[i].pc = "generate"
         /\ pvCalls[i].request[1].type = Image
         /\ PreviewStep(i, Running(pvCalls[i], "describe", Null))
    /\ UNCHANGED <<summarizerAvailable, promptAvailable, pvCount, cacheVars, puVars,
                   pfVars, ptVars, osVars, csVars>>

\* generateImageDescription settles (with a description, or with '' when
\* the prompt model is not available or fails): the one onUpdate of the
\* branch, then previewCache.set
ImageDescriptionSettles ==
    /\ \E i \in Tabs :
         /\ pvCalls[i].pc = "describe"
         /\ \E generated \in ImageOutcomes(promptAvailable) : PreviewReturns(i, generated)
    /\ UNCHANGED <<summarizerAvailable, promptAvailable, pvCount, now,
                   isInitialized, storageQueue, hydration, hydrated, failures, sets,
                   clears, lastSet, lastGet, puVars, pfVars, ptVars, osVars, csVars>>

NextImage ==
    \/ ImagePreviewMessage \/ PreviewLookup
    \/ PreviewFetchSettles
    \/ ImageDataUrlBuilt \/ ImageDescriptionSettles
    \/ PromptAvailabilityChanges

\* -------------------------------------------------------- SpecOffscreen
\* setupOffscreenDocument, called by generateWebpagePreview and
\* generatePDFPreview of the previews running at once. The extension can
\* have one offscreen document: chrome.offscreen.createDocument rejects when
\* one exists or is being created. getContexts lists the documents that
\* exist when it answers; one that is still being created may or may not be
\* listed.

\* setupOffscreenDocument is called: the flag is tested, and
\* chrome.runtime.getContexts is awaited when it is not set
SetupOffscreenCalled ==
    /\ \E w \in Previews :
         /\ osCalls[w] = "idle"
         /\ osCalls' = [osCalls EXCEPT ![w] =
                           IF offscreenDocumentCreated THEN "ready" ELSE "contexts"]
    /\ UNCHANGED <<offscreenDocumentCreated, osDocument, cacheVars, puVars, pfVars,
                   pvVars, ptVars, csVars>>

\* getContexts answers: with a document listed the flag is set and the call
\* returns; with none listed createDocument is invoked and awaited (chrome
\* starts creating the document unless it has or is creating one)
ContextsAnswered ==
    /\ \E w \in Previews, listed \in BOOLEAN :
         /\ osCalls[w] = "contexts"
         /\ listed = TRUE => osDocument \in {"creating", "exists"}
         /\ listed = FALSE => osDocument \in {"none", "creating"}
         /\ IF listed
            THEN /\ offscreenDocumentCreated' = TRUE
                 /\ osCalls' = [osCalls EXCEPT ![w] = "ready"]
                 /\ UNCHANGED osDocument
            ELSE /\ osCalls' = [osCalls EXCEPT ![w] =
                                   IF osDocument = "none" THEN "create" ELSE "createRefused"]
                 /\ osDocument' = IF osDocument = "none" THEN "creating" ELSE osDocument
                 /\ UNCHANGED offscreenDocumentCreated
    /\ UNCHANGED <<cacheVars, puVars, pfVars, pvVars, ptVars, csVars>>

\* createDocument resolves: the document exists, the flag is set
CreateDocumentResolves ==
    /\ \E w \in Previews :
         /\ osCalls[w] = "create"
         /\ osCalls' = [osCalls EXCEPT ![w] = "ready"]
    /\ osDocument' = "exists"
    /\ offscreenDocumentCreated' = TRUE
    /\ UNCHANGED <<cacheVars, puVars, pfVars, pvVars, ptVars, csVars>>

\* createDocument rejects (a document exists already): setupOffscreenDocument
\* throws, and the catch of generateWebpagePreview / generatePDFPreview
\* returns an empty overview / outline
CreateDocumentRejects ==
    /\ \E w \in Previews :
         /\ osCalls[w] = "createRefused"
         /\ osCalls' = [osCalls EXCEPT ![w] = "failed"]
    /\ UNCHANGED <<offscreenDocumentCreated, osDocument, cacheVars, puVars, pfVars,
                   pvVars, ptVars, csVars>>

\* the preview is over (parsed, or lost), and another one may start
OffscreenPreviewEnds ==
    /\ \E w \in Previews :
         /\ osCalls[w] \in {"ready", "failed"}
         /\ osCalls' = [osCalls EXCEPT ![w] = "idle"]
    /\ UNCHANGED <<offscreenDocumentCreated, osDocument, cacheVars, puVars, pfVars,
                   pvVars, ptVars, csVars>>

\* the service worker is stopped while no preview runs and started again:
\* the flag is false again, the document stays
WorkerRestarts ==
    /\ \A w \in Previews : osCalls[w] = "idle"
    /\ offscreenDocumentCreated = TRUE
    /\ offscreenDocumentCreated' = FALSE
    /\ UNCHANGED <<osDocument, osCalls, cacheVars, puVars, pfVars, pvVars, ptVars, csVars>>

NextOffscreen ==
    \/ SetupOffscreenCalled \/ ContextsAnswered
    \/ CreateDocumentResolves \/ CreateDocumentRejects
    \/ OffscreenPreviewEnds \/ WorkerRestarts

\* ---------------------------------------------------------- SpecContent
\* The content script of one page: the hover timers, the activeLinks and
\* hoverTimeouts Maps, the isExtensionEnabled flag with the read of the
\* stored setting at load and the togglePreview messages of the popup, the
\* preflightCheck messages awaiting their response and the previewUpdate
\* messages on their way from the background. The background answers a
\* preflightCheck with a result that asks for a preview ("preview"), with
\* one that does not ("plain"), or not at all / without success ("error").

\* the delay of the setTimeout of handleLinkMouseOver, in ms
HoverDelay == 300
\* the delay the README states, in ms
ReadmeHoverDelay == 3000

MaxHoverTicks == 2      \* a pending timer is followed for that many delays
MaxHovers == 3          \* preflightCheck messages after which no new hover starts
MaxToggles == 2         \* toggles by the user in a run

StoredSettings == {"unset", "true", "false"}
ResponseKinds == {"preview", "plain", "error"}

InitContent ==
    /\ CacheIdle /\ PureIdle /\ PreflightIdle /\ PreviewIdle /\ FetchIdle /\ OffscreenIdle
    /\ \E stored \in StoredSettings : ContentLoaded(stored)

\* const state: LinkState of handleLinkHover (shown: the links for whose
\* result an update was rendered in the entry's popup)
LinkState(link) ==
    [link |-> link, previewElement |-> FALSE, preflightResult |-> FALSE, shown |-> {}]

\* activeLinks.has(link), and the position of the entry
ActiveHas(active, link) == \E i \in 1..Len(active) : active[i].link = link
ActiveIndex(active, link) == CHOOSE i \in 1..Len(active) : active[i].link = link

\* function cleanup: what it leaves of hoverTimeouts and of activeLinks
CleanupTimeouts(timeouts, link) == [timeouts EXCEPT ![link] = Null]
IsNotLink(entry, link) == entry.link # link
CleanupActive(active, link) == SelectSeq(active, LAMBDA entry : IsNotLink(entry, link))

\* activeLinks.forEach((_, link) => cleanup(link))
CleanupAllTimeouts(timeouts, active) ==
    [l \in Links |-> IF ActiveHas(active, l) THEN Null ELSE timeouts[l]]

\* function handleLinkMouseOver: the pointer comes onto a link
MouseOver ==
    /\ csPointer = "none"
    /\ csSent < MaxHovers
    /\ \E link \in Links :
         /\ csPointer' = link
         /\ hoverTimeouts' =
                IF ActiveHas(activeLinks, link) \/ hoverTimeouts[link] # Null
                THEN hoverTimeouts
                ELSE [hoverTimeouts EXCEPT ![link] = Some(0)]
    /\ UNCHANGED <<isExtensionEnabled, csStored, csSettingRead, csToggle, csToggles,
                   activeLinks, csRequests, csSent, csUpdates,
                   cacheVars, puVars, pfVars, pvVars, ptVars, osVars>>

\* function handleLinkMouseOut: the pointer leaves the link
MouseOut ==
    /\ csPointer # "none"
    /\ csPointer' = "none"
    /\ hoverTimeouts' = CleanupTimeouts(hoverTimeouts, csPointer)
    /\ activeLinks' = CleanupActive(activeLinks, csPointer)
    /\ UNCHANGED <<isExtensionEnabled, csStored, csSettingRead, csToggle, csToggles,
                   csRequests, csSent, csUpdates,
                   cacheVars, puVars, pfVars, pvVars, ptVars, osVars>>

\* HoverDelay ms pass
HoverTick ==
    /\ \E link \in Links :
         hoverTimeouts[link] # Null /\ hoverTimeouts[link][1] < MaxHoverTicks * HoverDelay
    /\ hoverTimeouts' =
           [l \in Links |->
               IF hoverTimeouts[l] # Null /\ hoverTimeouts[l][1] < MaxHoverTicks * HoverDelay
               THEN Some(hoverTimeouts[l][1] + HoverDelay) ELSE hoverTimeouts[l]]
    /\ UNCHANGED <<isExtensionEnabled, csStored, csSettingRead, csToggle, csToggles,
                   csPointer, activeLinks, csRequests, csSent, csUpdates,
                   cacheVars, puVars, pfVars, pvVars, ptVars, osVars>>

\* the timer of a link fires: hoverTimeouts.delete(link) and function
\* handleLinkHover up to the sendMessage
HoverTimerFires ==
    /\ \E link \in Links :
         /\ hoverTimeouts[link] # Null
         /\ hoverTimeouts[link][1] >= HoverDelay
         /\ hoverTimeouts' = [hoverTimeouts EXCEPT ![link] = Null]
         /\ IF ~isExtensionEnabled \/ ActiveHas(activeLinks, link)
            THEN UNCHANGED <<activeLinks, csRequests, csSent>>
            ELSE /\ activeLinks' = Append(activeLinks, LinkState(link))
                 /\ csRequests' = Append(csRequests, link)
                 /\ csSent' = csSent + 1
    /\ UNCHANGED <<isExtensionEnabled, csStored, csSettingRead, csToggle, csToggles,
                   csPointer, csUpdates,
                   cacheVars, puVars, pfVars, pvVars, ptVars, osVars>>

\* the callback of the preflightCheck sendMessage runs
PreflightResponseArrives ==
    /\ \E i \in 1..Len(csRequests), kind \in ResponseKinds :
         LET link == csRequests[i]
         IN  /\ csRequests' = SubSeq(csRequests, 1, i - 1)
                                  \o SubSeq(csRequests, i + 1, Len(csRequests))
             /\ IF kind = "error"
                THEN /\ hoverTimeouts' = CleanupTimeouts(hoverTimeouts, link)
                     /\ activeLinks' = CleanupActive(activeLinks, link)
                     /\ UNCHANGED csUpdates
                ELSE IF ~ActiveHas(activeLinks, link)
                THEN UNCHANGED <<hoverTimeouts, activeLinks, csUpdates>>
                ELSE /\ activeLinks' =
                            [activeLinks EXCEPT ![ActiveIndex(activeLinks, link)] =
                                [link |-> link, previewElement |-> TRUE,
                                 preflightResult |-> TRUE, shown |-> {}]]
                     /\ csUpdates' = IF kind = "preview" THEN csUpdates \cup {link}
                                     ELSE csUpdates
                     /\ UNCHANGED hoverTimeouts
    /\ UNCHANGED <<isExtensionEnabled, csStored, csSettingRead, csToggle, csToggles,
                   csPointer, csSent,
                   cacheVars, puVars, pfVars, pvVars, ptVars, osVars>>

\* the first entry of activeLinks with a popup and a result: 0 if none
FirstPreview(active) ==
    IF \E i \in 1..Len(active) : active[i].previewElement /\ active[i].preflightResult
    THEN CHOOSE i \in 1..Len(active) :
            /\ active[i].previewElement /\ active[i].preflightResult
            /\ \A j \in 1..(i - 1) : ~(active[j].previewElement /\ active[j].preflightResult)
    ELSE 0

\* a previewUpdate message arrives: function updatePreviewWithAIContent
PreviewUpdateArrives ==
    /\ \E link \in csUpdates :
         /\ csUpdates' = csUpdates \ {link}
         /\ activeLinks' =
                IF FirstPreview(activeLinks) = 0 THEN activeLinks
                ELSE [activeLinks EXCEPT ![FirstPreview(activeLinks)].shown = @ \cup {link}]
    /\ UNCHANGED <<isExtensionEnabled, csStored, csSettingRead, csToggle, csToggles,
                   csPointer, hoverTimeouts, csRequests, csSent,
                   cacheVars, puVars, pfVars, pvVars, ptVars, osVars>>

\* the callback of chrome.storage.local.get(['linkPreviewEnabled']) runs
StoredSettingRead ==
    /\ ~csSettingRead
    /\ csSettingRead' = TRUE
    /\ isExtensionEnabled' = (csStored # "false")
    /\ UNCHANGED <<csStored, csToggle, csToggles, csPointer, hoverTimeouts, activeLinks,
                   csRequests, csSent, csUpdates,
                   cacheVars, puVars, pfVars, pvVars, ptVars, osVars>>

\* the popup is opened with no setting stored: App stores false (and sends
\* no message to the pages)
PopupOpenedFirst ==
    /\ csStored = "unset"
    /\ csStored' = "false"
    /\ UNCHANGED <<isExtensionEnabled, csSettingRead, csToggle, csToggles, csPointer,
                   hoverTimeouts, activeLinks, csRequests, csSent, csUpdates,
                   cacheVars, puVars, pfVars, pvVars, ptVars, osVars>>

\* the user flips the toggle of the popup: applyToggle stores the new state
\* and sends togglePreview to every tab
UserToggles ==
    /\ csStored # "unset"
    /\ csToggle = Null
    /\ csToggles < MaxToggles
    /\ csToggles' = csToggles + 1
    /\ csStored' = IF csStored = "false" THEN "true" ELSE "false"
    /\ csToggle' = Some(csStored = "false")
    /\ UNCHANGED <<isExtensionEnabled, csSettingRead, csPointer, hoverTimeouts,
                   activeLinks, csRequests, csSent, csUpdates,
                   cacheVars, puVars, pfVars, pvVars, ptVars, osVars>>

\* the togglePreview message arrives at the page
TogglePreviewArrives ==
    /\ csToggle # Null
    /\ csToggle' = Null
    /\ isExtensionEnabled' = csToggle[1]
    /\ IF csToggle[1]
       THEN UNCHANGED <<hoverTimeouts, activeLinks>>
       ELSE /\ hoverTimeouts' = CleanupAllTimeouts(hoverTimeouts, activeLinks)
            /\ activeLinks' = <<>>
    /\ UNCHANGED <<csStored, csSettingRead, csToggles, csPointer, csRequests, csSent,
                   csUpdates, cacheVars, puVars, pfVars, pvVars, ptVars, osVars>>

\* visibilitychange with document.hidden
TabHidden ==
    /\ activeLinks # <<>>
    /\ hoverTimeouts' = CleanupAllTimeouts(hoverTimeouts, activeLinks)
    /\ activeLinks' = <<>>
    /\ UNCHANGED <<isExtensionEnabled, csStored, csSettingRead, csToggle, csToggles,
                   csPointer, csRequests, csSent, csUpdates,
                   cacheVars, puVars, pfVars, pvVars, ptVars, osVars>>

NextContent ==
    \/ MouseOver \/ MouseOut \/ HoverTick \/ HoverTimerFires
    \/ PreflightResponseArrives \/ PreviewUpdateArrives
    \/ StoredSettingRead \/ PopupOpenedFirst \/ UserToggles \/ TogglePreviewArrives
    \/ TabHidden

\* ------------------------------------------------------------ claims
TierRank(risk) == IF risk = Red THEN 2 ELSE IF risk = Amber THEN 1 ELSE 0

\* C4: generatePreview issues a bounded GET only for a call that found a
\* generative capability available when it started, whose result is not Red
\* and is a Webpage, PDF or Image with the PartialGet plan, and whose lookup
\* found no live entry under its key in previewCache; the GET is for the
\* finalUrl with the byte budget of the type. So no call for a Red result,
\* for another (type, plan) pair or for a Download ever fetches.
C4_FetchOnlyWhenQualified ==
    [][ /\ \A i \in Tabs :
              (pvCalls[i].pc # "hash" /\ pvCalls'[i].pc = "hash") =>
                  /\ aiAvailable(summarizerAvailable, promptAvailable)
                  /\ pvCalls'[i].request[1].risk # Red
        /\ \A i \in Tabs :
              (pvCalls[i].pc # "fetch" /\ pvCalls'[i].pc = "fetch") =>
                  /\ pvFetched' # Null
                  /\ pvFetched'[1].call = i
        /\ pvFetched' # Null =>
              LET i == pvFetched'[1].call
              IN  /\ pvCalls[i].pc = "hash"
                  /\ pvCalls'[i].pc = "fetch"
                  /\ LET r == pvCalls[i].request[1]
                     IN  /\ r.risk # Red
                         /\ r.type \in {Webpage, PDF, Image}
                         /\ r.fetchPlan = PartialGet
                         /\ GetReturns(memoryCache, cacheKey(r), now) = Null
                         /\ pvFetched'[1].url = r.finalUrl
                         /\ pvFetched'[1].maxBytes = maxBytesOf(r.type)
      ]_vars

\* a bounded GET was just issued for the call of one tab while the Download
\* call of the other tab is being previewed
C4_Witness ==
    /\ pvFetched # Null
    /\ \E j \in Tabs \ {pvFetched[1].call} : pvCalls[j].pc = "download"

\* C5: decideFetchPlan equals the priority table on every (type, risk): a
\* Blocked type gives Blocked; Download with Red gives Blocked; Mailto, Tel,
\* Anchor and Video give NoFetch; Image, Webpage and PDF give PartialGet; any
\* other Download gives HeadOnly; the plan is Blocked exactly when the type is
\* Blocked or a Red Download.
C5_FetchPlanTable ==
    puPlan # Null =>
        LET p == puPlan[1]
        IN  /\ p.fetchPlan \in FetchPlan
            /\ (p.fetchPlan = PlanBlocked) <=>
                  (p.type = Blocked \/ (p.type = Download /\ p.risk = Red))
            /\ p.type \in {Mailto, Tel, Anchor, Video} => p.fetchPlan = NoFetch
            /\ p.type \in {Image, Webpage, PDF} => p.fetchPlan = PartialGet
            /\ (p.type = Download /\ p.risk # Red) => p.fetchPlan = HeadOnly

C5_Witness ==
    /\ puPlan # Null
    /\ puPlan[1].type = Download
    /\ puPlan[1].risk = Red
    /\ puPlan[1].fetchPlan = PlanBlocked

\* C7: risk reduction is monotonic: a signal list to which a Red signal was
\* added scores Red; adding a signal never lowers the tier; and reordering
\* the signals leaves the tier unchanged.
C7_ScoreRiskMonotonic ==
    /\ (puOp.kind = "add" /\ puOp.signal.level = Red) => scoreRisk(puSignals).risk = Red
    /\ puOp.kind = "add" =>
          TierRank(scoreRisk(puSignals).risk) >= TierRank(scoreRisk(puPrev).risk)
    /\ puOp.kind = "reorder" => scoreRisk(puSignals).risk = scoreRisk(puPrev).risk

C7_Witness ==
    /\ puOp.kind = "add"
    /\ puOp.signal.level = Red
    /\ scoreRisk(puPrev).risk = Amber
    /\ puSignals[1].level = Amber
    /\ scoreRisk(puSignals).risk = Red

\* the request in hand, its answer and the result in it
Responded == pfResponse # Null
Result == pfResponse[1].result
Msg == pfMessage[1]

\* C1: for every href with a javascript:, data:, file: or vbscript: scheme,
\* whatever the anchor text and the page, the answer is type Blocked, risk
\* Red, reasons ["Unsafe scheme"], fetchPlan Blocked, and no HEAD and no
\* sniff request is ever issued for it.
C1_UnsafeSchemeBlocked ==
    (pfMessage # Null /\ Msg.href.url.protocol \in {"javascript:", "data:", "file:", "vbscript:"}) =>
        /\ pfHeadLog = <<>>
        /\ pfSniffLog = <<>>
        /\ Responded
        /\ Result.type = Blocked
        /\ Result.risk = Red
        /\ Result.reasons = <<"Unsafe scheme">>
        /\ Result.fetchPlan = PlanBlocked

C1_Witness ==
    /\ Responded
    /\ ~pfFromCache
    /\ Msg.href.url.protocol = "vbscript:"
    /\ Msg.anchorText = <<"paypal", "com">>
    /\ Result.type = Blocked

\* C2: for every mailto: or tel: href, whatever the anchor text and the page,
\* the answer is risk Green, no reasons, fetchPlan NoFetch, type Mailto or
\* Tel respectively, and no HEAD and no sniff request is ever issued for it.
C2_MailtoTelNoFetch ==
    (pfMessage # Null /\ Msg.href.url.protocol \in {"mailto:", "tel:"}) =>
        /\ pfHeadLog = <<>>
        /\ pfSniffLog = <<>>
        /\ Responded
        /\ Result.type = (IF Msg.href.url.protocol = "mailto:" THEN Mailto ELSE Tel)
        /\ Result.risk = Green
        /\ Result.reasons = <<>>
        /\ Result.fetchPlan = NoFetch

C2_Witness ==
    /\ Responded
    /\ ~pfFromCache
    /\ Msg.href.url.protocol = "tel:"
    /\ Msg.pageOrigin.protocol = "chrome-extension:"
    /\ Result.type = Tel

\* C3: every preflightCheck message is answered with success = true and a
\* complete PreflightResult (domain, type, risk, reasons, finalUrl and
\* fetchPlan all set), whatever the href, the page and the way the network
\* requests settle; until the answer, the handler waits only for a HEAD or
\* for the ranged GET, each of which settles (by its timeout at the latest).
C3_AlwaysCompleteResult ==
    /\ (pfMessage # Null /\ ~Responded) => pfPc \in {"head", "sniff"}
    /\ pfPc = "head" => pfHeadLog # <<>>
    /\ pfPc = "sniff" => pfSniffLog # <<>>
    /\ Responded =>
         /\ pfPc = "responded"
         /\ pfResponse[1].success = TRUE
         /\ {"domain", "type", "risk", "reasons", "finalUrl", "fetchPlan"}
               \subseteq DOMAIN Result
         /\ Result.type \in LinkType
         /\ Result.risk \in RiskLevel
         /\ Result.fetchPlan \in FetchPlan
         /\ Result.reasons \in SeqsUpTo({"Unsafe scheme", "Unknown protocol",
                                         "Suspicious domain characters", "HTTP (not secure)",
                                         "Executable download"}
                                        \cup {RedirectsReason(n) : n \in 2..(maxRedirects + 1)}, 2)
         /\ Result.finalUrl \in {Msg.href} \cup {Href(TRUE, u) : u \in Locations}
         /\ Result.domain \in {<<"blocked">>, <<"email">>, <<"phone">>}
                              \cup {h.url.hostname : h \in Hrefs}
                              \cup {u.hostname : u \in Locations}

\* a request whose HEAD was rejected after a redirect with an unusable
\* Location is answered all the same
C3_Witness ==
    /\ Responded
    /\ ~pfFromCache
    /\ Len(pfHeadTrace) = 2
    /\ pfHeadTrace[1].status = 301
    /\ pfHeadTrace[2].status = 0
    /\ pfResponse[1].success = TRUE

\* the signatures of native executables and archives; a PK or ELF signature
\* is looked for in a body of at least four bytes
HasExecutableSignature(bytes) ==
    \/ Len(bytes) >= 2 /\ SubSeq(bytes, 1, 2) = <<77, 90>>
    \/ Len(bytes) >= 4 /\ SubSeq(bytes, 1, 4) = <<127, 69, 76, 70>>
    \/ Len(bytes) >= 4 /\ SubSeq(bytes, 1, 3) \in {<<80, 75, 3>>, <<80, 75, 5>>}

\* C6: whenever an http(s) target resolved to Download with an octet-stream
\* content type and the sniffed bytes carry an executable/archive signature
\* (MZ, ELF, PK\x03, PK\x05), the result is type Download, risk Red with the
\* reason "Executable download" and fetchPlan Blocked, whatever Amber signals
\* were collected.
C6_ExecutableDownloadRed ==
    (Responded /\ ~pfFromCache /\ pfSniffed # Null
       /\ ~pfSniffed[1].rejected /\ HasExecutableSignature(pfSniffed[1].bytes)) =>
        /\ pfType = Download
        /\ Includes(pfHeadResult[1].contentType, "octet-stream")
        /\ Result.type = Download
        /\ Result.risk = Red
        /\ \E i \in 1..Len(Result.reasons) : Result.reasons[i] = "Executable download"
        /\ Result.fetchPlan = PlanBlocked

\* an MZ body behind two Amber signals
C6_Witness ==
    /\ Responded
    /\ ~pfFromCache
    /\ pfSniffed # Null
    /\ pfSniffed[1].bytes = <<77, 90>>
    /\ Len(Filter(pfAllSignals, Amber)) >= 2
    /\ Result.risk = Red

\* the first two reasons of the signals of a level, in collection order
FirstTwoReasons(signals, level) ==
    LET of == SelectSeq(signals, LAMBDA x : x.level = level)
    IN  [i \in 1..(IF Len(of) < 2 THEN Len(of) ELSE 2) |-> of[i].reason]

\* what the reasons of a result are, by its tier, from the signals collected
ReasonsFollowSignals(result, signals) ==
    /\ Len(result.reasons) <= 2
    /\ result.risk = Red => result.reasons = FirstTwoReasons(signals, Red)
    /\ result.risk = Amber => result.reasons = FirstTwoReasons(signals, Amber)
    /\ result.risk = Green => result.reasons = <<>>

\* C8 as claimed: in every PreflightResult, reasons has at most 2 entries;
\* Red: the first two Red signal reasons in collection order; Amber: the
\* first two Amber reasons; Green: none.
C8_Original ==
    (Responded /\ ~pfFromCache) => ReasonsFollowSignals(Result, pfAllSignals)

\* C8 (amended): every PreflightResult has at most 2 reasons. In a result of
\* the risk resolution (an http(s) target that was probed), the signals are
\* collected in the order lexical, probe, sniff, and the reasons are the first
\* two Red signal reasons if the risk is Red, the first two Amber reasons if
\* it is Amber, none if it is Green. A short-circuit result (gate, mailto/tel,
\* same-page anchor, unknown protocol) takes no reason from the signals: it is
\* Red with the one fixed reason "Unsafe scheme" or "Unknown protocol", or
\* Green with none.
C8_ReasonsByTier ==
    Responded =>
        /\ Len(Result.reasons) <= 2
        /\ (~pfFromCache /\ pfHeadResult # Null) =>
              /\ pfAllSignals =
                    performLexicalChecks(Msg.href.url, Msg.anchorText, Msg.pageOrigin).signals
                    \o pfHeadResult[1].signals
                    \o (IF pfSniffed # Null /\ pfSniffed[1].type = Download
                        THEN <<RiskSignal(Red, "Executable download")>> ELSE <<>>)
              /\ ReasonsFollowSignals(Result, pfAllSignals)
        /\ (~pfFromCache /\ pfHeadResult = Null) =>
              \/ Result.risk = Red /\ Result.reasons \in {<<"Unsafe scheme">>, <<"Unknown protocol">>}
              \/ Result.risk = Green /\ Result.reasons = <<>>

\* three Amber signals, of which the first two are kept
C8_Witness ==
    /\ Responded
    /\ ~pfFromCache
    /\ Len(Filter(pfAllSignals, Amber)) = 3
    /\ Result.risk = Amber
    /\ Result.reasons = <<"Suspicious domain characters", "HTTP (not secure)">>

\* the signal of the redirect cap: a count above maxRedirects
IsCapSignal(sig) ==
    \E n \in (maxRedirects + 1)..(maxRedirects + 2) :
        sig = RiskSignal(Amber, RedirectsReason(n))

\* a HEAD answered by a redirect with a Location, and one whose Location
\* is a URL
Redirected(t) == t.status >= 300 /\ t.status < 400 /\ t.hasLocation
Followed(t) == Redirected(t) /\ t.validLocation

\* C9: a HEAD probe over a chain of exactly 3 redirects ending in a 200
\* response follows all three, returns redirectCount = 3 and adds no
\* redirect-cap signal; over a chain of 4 redirects the cap signal fires and
\* following stops at hop 3: the probe returns the third Location as finalUrl
\* and the 4th Location is never requested.
C9_RedirectCap ==
    (Len(pfHeadTrace) >= 3 /\ \A i \in 1..3 : Followed(pfHeadTrace[i])) =>
        /\ Len(pfHeadLog) = 4
        /\ Len(pfHeadTrace) = 3 =>
              pfPc = "head" /\ pfHeadResult = Null /\ pfRedirectCount = 3
        /\ Len(pfHeadTrace) > 3 =>
              /\ Len(pfHeadTrace) = 4
              /\ pfHeadResult # Null
              /\ pfHeadResult[1].finalUrl = pfHeadLog[4]
        /\ (Len(pfHeadTrace) > 3 /\ pfHeadTrace[4].status = 200) =>
              /\ pfHeadResult[1].redirectCount = 3
              /\ \A i \in 1..Len(pfHeadResult[1].signals) :
                    ~IsCapSignal(pfHeadResult[1].signals[i])
        /\ (Len(pfHeadTrace) > 3 /\ Redirected(pfHeadTrace[4])) =>
              \E i \in 1..Len(pfHeadResult[1].signals) :
                  IsCapSignal(pfHeadResult[1].signals[i])

C9_Witness ==
    /\ pfHeadResult # Null
    /\ Len(pfHeadTrace) = 4
    /\ \A i \in 1..4 : Followed(pfHeadTrace[i])
    /\ pfHeadLog[4] # pfHeadLog[3]
    /\ pfHeadResult[1].signals = <<RiskSignal(Amber, RedirectsReason(4))>>
    /\ Len(pfHeadLog) = 4


\* C10: cache round-trip: set(k, v) followed by get(k) before 5 minutes have
\* elapsed returns v unchanged, with its creation timestamp, and get(k) once
\* 5 minutes have elapsed returns absent, in every interleaving with the
\* hydration and persistence tasks of the cache.
C10_RoundTrip ==
    (lastGet # Null /\ lastSet[lastGet[1].key] # Null) =>
        LET got == lastGet[1]
            written == lastSet[got.key][1]
        IN  IF got.at - written.timestamp < CACHE_DURATION
            THEN got.result = Some(written)
            ELSE got.result = Null



\* C11: get(key) never returns an entry whose age is 5 minutes or more; an
\* expired entry that get finds is removed from the Map and nothing is written
\* to or queued for the durable slot; what hydration puts into the Map is not
\* expired when it is put.
C11_NoExpiredEntry ==
    [][ /\ lastGet' # Null =>
              LET got == lastGet'[1]
              IN  /\ got.result # Null =>
                        /\ got.at - got.result[1].timestamp < CACHE_DURATION
                        /\ MapHas(memoryCache, got.key)
                        /\ got.result[1] = memoryCache[got.key]
                        /\ memoryCache' = memoryCache
                  /\ (got.result = Null /\ MapHas(memoryCache, got.key)) =>
                        /\ got.at - memoryCache[got.key].timestamp >= CACHE_DURATION
                        /\ memoryCache' = MapDelete(memoryCache, got.key)
                  /\ storage' = storage
                  /\ storageQueue' = storageQueue
        /\ (hydration = "read" /\ hydration' = "done") =>
              \A k \in DOMAIN memoryCache' :
                  \/ MapHas(memoryCache, k) /\ memoryCache'[k] = memoryCache[k]
                  \/ now - memoryCache'[k].timestamp < CACHE_DURATION
      ]_vars

\* a get has just found the entry of an earlier set expired and removed it,
\* after a hydration that read a record holding an expired entry
C11_Witness ==
    /\ lastGet # Null
    /\ lastGet[1].result = Null
    /\ lastSet[lastGet[1].key] # Null
    /\ lastGet[1].at - lastSet[lastGet[1].key][1].timestamp >= CACHE_DURATION
    /\ ~MapHas(memoryCache, lastGet[1].key)
    /\ hydration = "done"
    /\ storage # Null
    /\ \E k \in DOMAIN storage[1] : storage[1][k] = Stale


\* C12: set(key, value) puts the entry into the Map before it returns and
\* never rejects, and until the next set or clear of that cache the entry stays
\* the one the Map holds for the key while it is younger than the TTL,
\* whatever the durable store does (hydration still pending, a write that
\* fails, a write that has not settled).
C12_SetStaysReadable ==
    \A key \in Keys :
        (lastSet[key] # Null /\ now - lastSet[key][1].timestamp < CACHE_DURATION) =>
            /\ MapHas(memoryCache, key)
            /\ memoryCache[key] = lastSet[key][1]
            /\ GetReturns(memoryCache, key, now) = lastSet[key]


\* the remove issued by clear() has settled and no set has been called since
ClearCompleted ==
    /\ clears > 0
    /\ \A i \in 1..Len(storageQueue) : storageQueue[i].op # "remove"
    /\ \A key \in Keys : lastSet[key] = Null

\* C13: once clear() has completed, and until the next set, the Map is empty
\* and the durable slot is absent, in every interleaving with the writes of
\* earlier sets and with a hydration still in progress (stated for the runs
\* in which no durable operation failed, so that the remove took effect).
C13_ClearStaysCleared ==
    (ClearCompleted /\ failures = 0) =>
        /\ memoryCache = EmptyMap
        /\ storage = Null


\* a result with its textMismatch field blanked
WithoutTextMismatch(result) == [result EXCEPT !.textMismatch = Null]

\* the result performPreflightCheck computes for the href and page of the
\* current message and the anchor text given, from the network responses the
\* current classification received (the HEAD probe's return, the sniffed type)
ResultForAnchorText(anchorText) ==
    LET start == PreflightStart(Msg.href, anchorText, Msg.pageOrigin)
    IN  IF start.done THEN start.result
        ELSE LET headResult == pfHeadResult[1]
                 sniffedType == IF pfSniffed = Null THEN None ELSE pfSniffed[1].type
             IN  ClassifiedResult(headResult,
                                  TypeAfterSniff(TypeBeforeSniff(headResult), sniffedType),
                                  SignalsAfterSniff(start.allSignals \o headResult.signals,
                                                    sniffedType),
                                  start.textMismatch)

\* a classification (not a cache hit) has been answered
Classified == Responded /\ ~pfFromCache

\* C14: the anchor text is display-only: for the same href, page and network
\* responses, the classification of any other anchor text takes the same
\* path (returns early or probes the same URL, sniffs or not) and yields the
\* same result in every field but textMismatch, type, risk, reasons and
\* fetchPlan included.
C14_AnchorTextDisplayOnly ==
    Classified =>
        \A anchorText \in AnchorTexts :
            LET start == PreflightStart(Msg.href, Msg.anchorText, Msg.pageOrigin)
                other == PreflightStart(Msg.href, anchorText, Msg.pageOrigin)
            IN  /\ other.done = start.done
                /\ other.url = start.url
                /\ other.done = (pfHeadResult = Null)
                /\ ~other.done =>
                      (pfSniffed # Null) = NeedsSniff(TypeBeforeSniff(pfHeadResult[1]),
                                                      pfHeadResult[1])
                /\ Result = ResultForAnchorText(Msg.anchorText)
                /\ WithoutTextMismatch(ResultForAnchorText(anchorText))
                       = WithoutTextMismatch(Result)

\* a probed link scored Amber whose anchor text names another domain, while
\* another anchor text would give no mismatch
C14_Witness ==
    /\ Classified
    /\ pfHeadResult # Null
    /\ Result.risk = Amber
    /\ Result.textMismatch # Null
    /\ \E anchorText \in AnchorTexts :
           ResultForAnchorText(anchorText).textMismatch = Null


\* the results with which a preflightCheck was answered in the step
AnsweredInStep ==
    (IF pfResponse' # Null /\ (pfRequests' # pfRequests \/ pfPc' # pfPc)
     THEN {pfResponse'[1]} ELSE {})
    \cup (IF pfOverlap'.response # Null /\ pfOverlap' # pfOverlap
          THEN {pfOverlap'.response[1]} ELSE {})

\* the results of the classifications that returned in the step
ClassifiedInStep ==
    (IF pfResponse' # Null /\ ~pfFromCache' /\ (pfRequests' # pfRequests \/ pfPc' # pfPc)
     THEN {pfResponse'[1].result} ELSE {})
    \cup (IF pfOverlap'.response # Null /\ pfOverlap.pc = "running"
          THEN {pfOverlap'.response[1].result} ELSE {})

\* C15 as stated: while a result for href is live in preflightCache, every
\* preflightCheck answered for href returns the stored result and the stored
\* entry is not created anew.
C15_Original ==
    [][ pfMessage' # Null =>
          LET href == pfMessage'[1].href
              live == GetReturns(memoryCache, href, now)
          IN  live # Null =>
                  /\ \A response \in AnsweredInStep : response.result = live[1].data
                  /\ MapHas(memoryCache', href) /\ memoryCache'[href] = live[1]
      ]_vars

\* C15: a preflightCheck message handled while a result for its href is live
\* in preflightCache is answered with the stored result, issues no HEAD and no
\* ranged GET and leaves the cache as it is; and an entry of the cache only
\* ever changes by being set, as a whole, to the result of a classification
\* that returned in that step (calls in flight for one href are not
\* coalesced: each stores its own result when it returns).
C15_CachedResultReused ==
    [][ /\ (pfRequests' # pfRequests /\ GetReturns(memoryCache, pfMessage'[1].href, now) # Null) =>
              /\ pfResponse' = Some([success |-> TRUE,
                                     result |-> memoryCache[pfMessage'[1].href].data])
              /\ pfFromCache'
              /\ pfPc' = "responded"
              /\ pfHeadLog' = <<>> /\ pfSniffLog' = <<>>
              /\ memoryCache' = memoryCache
              /\ storageQueue' = storageQueue
        /\ \A href \in DOMAIN memoryCache' :
              (~MapHas(memoryCache, href) \/ memoryCache'[href] # memoryCache[href]) =>
                  /\ pfMessage' # Null /\ href = pfMessage'[1].href
                  /\ \E result \in ClassifiedInStep : memoryCache'[href] = Entry(result, now)
        /\ \A href \in DOMAIN memoryCache : MapHas(memoryCache', href)
      ]_vars

\* a message was answered from the cache with the result that an overlapping
\* classification of the same href had stored over the first one's
C15_Witness ==
    /\ Responded /\ pfFromCache
    /\ pfOverlap.response # Null
    /\ Result = pfOverlap.response[1].result
    /\ pfRequests = 2
    /\ MapHas(memoryCache, Msg.href) /\ memoryCache[Msg.href].data = Result


\* the update the catch of generatePreview is to send for an error of the
\* bounded fetch, by the class of the error
TerminalUpdateFor(errorMessage) ==
    IF errorMessage = "HTTP 999 - Cloudflare protection"
    THEN [aiAvailable |-> FALSE, reason |-> CloudflareReason]
    ELSE IF errorMessage \in {"HTTP 404", "Failed to fetch", "Request timed out"}
    THEN [aiAvailable |-> TRUE, clearLoading |-> TRUE]
    ELSE [aiAvailable |-> TRUE, error |-> "Preview unavailable"]

\* C16: when performPartialFetch rejects, generatePreview sends exactly one
\* update and resolves (the handler answers success): the Cloudflare message
\* for HTTP 999, clearLoading for HTTP 404 (403 and 410 are tested alike),
\* 'Failed to fetch' and a timeout, error 'Preview unavailable' for any other
\* error (HTTP 500); and the
\* preview cache and its durable slot are left as they were.
C16_FetchFailureAbsorbed ==
    [][ \A i \in Tabs :
          (pvCalls[i].pc = "fetch" /\ pvReturned' # Null /\ pvReturned'[1].call = i) =>
              /\ pvCalls'[i] = DoneCall
              /\ Len(pvReturned'[1].updates) = 1
              /\ \E errorMessage \in FetchErrors :
                     /\ pvReturned'[1].updates[1] = CatchUpdate(errorMessage)
                     /\ \A e \in FetchErrors : CatchUpdate(e) = TerminalUpdateFor(e)
              /\ pvReturned'[1].stored = Null
              /\ pvReturned'[1].response = [success |-> TRUE]
              /\ memoryCache' = memoryCache
              /\ storage' = storage
              /\ pvFetched' = Null
      ]_vars

\* a call has just returned from the catch with the clearLoading update while
\* the other call is still waiting for its fetch
C16_Witness ==
    /\ pvReturned # Null
    /\ pvReturned[1].updates = <<[aiAvailable |-> TRUE, clearLoading |-> TRUE]>>
    /\ pvReturned[1].stored = Null
    /\ \E i \in Tabs : pvCalls[i].pc = "fetch"


\* C17: a failed durable write is retried once, after one compaction pass; if
\* the retry fails too, persistence stops: no write in flight is ever the
\* retry of a retry, so a persist task ends after at most two writes even
\* when every write fails.
C17_RetriesOnce ==
    \A i \in 1..Len(storageQueue) : Attempt(storageQueue[i]) <= 2


\* C18: whatever the response and the chunking of its body, the data
\* performPartialFetch(url, maxBytes) resolves with holds at most maxBytes
\* bytes.
C18_AtMostMaxBytes ==
    (ptOutcome # Null /\ ptOutcome[1].resolved) => ptOutcome[1].byteLength <= ptMaxBytes

\* C19: a call of performPartialFetch always settles: wherever the server
\* stalls (before the response headers or while the body is streamed), the
\* timer aborts the call, which rejects with the timeout error.
C19_AlwaysCompletes ==
    (ptPc \in {"fetch", "read"}) ~> (ptPc \in {"resolved", "rejected"})


\* C20: every classification that awaits the network ends with a response:
\* each HEAD hop and the sniff (its GET and the read of its body) is ended by
\* its own timer if the server stalls there.
C20_ClassificationResolves ==
    (pfPc \in {"head", "sniff", "sniffBody"}) ~> (pfPc = "responded")


\* C21: every classification of an http: target hovered on an https: or
\* chrome-extension: page carries the Amber signal 'HTTP (not secure)', so
\* its risk is not Green.
C21_HttpDowngradeNeverGreen ==
    (/\ Classified
     /\ Msg.href.parses
     /\ Msg.href.url.protocol = "http:"
     /\ Msg.pageOrigin.protocol \in {"https:", "chrome-extension:"}) =>
        /\ Result.risk # Green
        /\ \E i \in 1..Len(pfAllSignals) :
               pfAllSignals[i] = RiskSignal(Amber, "HTTP (not secure)")

\* C22: whenever the HEAD probe returned redirectCount >= 2, whichever way it
\* ended, its signals contain the Amber signal 'Redirects x<n>' with n the
\* returned redirect count.
C22_RedirectsSignalled ==
    (pfHeadResult # Null /\ pfHeadResult[1].redirectCount >= 2) =>
        \E i \in 1..Len(pfHeadResult[1].signals) :
            pfHeadResult[1].signals[i] =
                RiskSignal(Amber, RedirectsReason(pfHeadResult[1].redirectCount))

\* C23: when the HEAD probe fails transiently (its fetch is rejected by the
\* timeout or by a connection failure), the classification is a degraded
\* result with a visible reason: its reasons are not empty and its risk is
\* not Green.
C23_HeadFailureVisible ==
    (/\ Classified
     /\ pfHeadTrace # <<>>
     /\ pfHeadTrace[Len(pfHeadTrace)].status = 0) =>
        /\ Result.reasons # <<>>
        /\ Result.risk # Green

\* C24: a classification that meets an internal failure (the href does not
\* parse as a URL, or the HEAD fetch is rejected) answers exactly type
\* Webpage, risk Amber, reasons ['Unable to check'], fetchPlan PartialGet.
C24_FailureDegradesToUnableToCheck ==
    (/\ Classified
     /\ \/ ~Msg.href.parses
        \/ pfHeadTrace # <<>> /\ pfHeadTrace[Len(pfHeadTrace)].status = 0) =>
        /\ Result.type = Webpage
        /\ Result.risk = Amber
        /\ Result.reasons = <<"Unable to check">>
        /\ Result.fetchPlan = PartialGet

\* the HEAD result the probe would have returned for the same URL had its
\* last fetch been answered the other way (405 instead of a rejection, or a
\* rejection instead of 405)
OtherFallbackResult(headResult) ==
    [headResult EXCEPT !.contentType =
        IF pfHeadTrace[Len(pfHeadTrace)].status = 405
        THEN FallbackContentTypeOnFailure(headResult.finalUrl)
        ELSE FallbackContentType405(headResult.finalUrl)]

\* C25: the content type guessed when the HEAD fetch is rejected (timeout,
\* network failure) is the one guessed on a 405 answer: for every URL either
\* fallback returns the same contentType, hence the same type and the same
\* decision to run the byte sniff.
C25_FallbacksAgree ==
    (/\ pfHeadResult # Null
     /\ pfHeadTrace[Len(pfHeadTrace)].status \in {0, 405}) =>
        LET headResult == pfHeadResult[1]
            other == OtherFallbackResult(headResult)
        IN  /\ headResult.contentType = other.contentType
            /\ TypeBeforeSniff(headResult) = TypeBeforeSniff(other)
            /\ NeedsSniff(TypeBeforeSniff(headResult), headResult)
                   = NeedsSniff(TypeBeforeSniff(other), other)

\* the HEAD response of the classification carried Content-Disposition:
\* attachment
AttachmentAnswered ==
    /\ Classified
    /\ pfHeadResult # Null
    /\ Includes(ToLowerCase(pfHeadResult[1].contentDisposition), "attachment")

\* the sniff of the classification ran and recognised a type
PositiveSniff == pfSniffed # Null /\ pfSniffed[1].type # None

C27_MismatchMeansDifferentDomains ==
    (Classified /\ pfHeadResult # Null) =>
        LET registrableText == extractTopLevel(StripWww(Msg.anchorText))
            registrableLink == extractTopLevel(StripWww(extractDomain(Msg.href.url)))
        IN  /\ Result.textMismatch # Null <=>
                   (Msg.anchorText # <<>> /\ registrableText # registrableLink)
            /\ Result.textMismatch # Null =>
                   Result.textMismatch[1].textDomain # Result.textMismatch[1].linkDomain

\* both overlapping requests ran a classification and both have returned
BothClassified ==
    /\ pfPc = "responded" /\ ~pfFromCache
    /\ pfOverlap.pc = "responded"

\* C28: no in-flight coalescing, and a last-write-wins cache without merge: a
\* preflightCheck arriving for an href whose classification is still running
\* starts a classification of its own, the set of each classification that
\* completes leaves get(href) returning exactly its result, and once both
\* have completed get(href) returns one of the two results, whole.
C28_LastWriteWins ==
    [][/\ (pfOverlap.pc = "idle" /\ pfOverlap'.pc # "idle") => pfOverlap'.pc = "running"
       /\ \A result \in ClassifiedInStep :
            GetReturns(memoryCache', pfMessage'[1].href, now')
                = Some(Entry(result, now'))
       /\ BothClassified' =>
            \E e \in {GetReturns(memoryCache', pfMessage'[1].href, now')} :
                /\ e # Null
                /\ e[1].data \in {pfResponse'[1].result, pfOverlap'.response[1].result}
      ]_vars

\* two overlapping classifications of one href ended with different results,
\* and get(href) returns the result of the first request, whose set ran last
C28_Witness ==
    /\ BothClassified
    /\ Result # pfOverlap.response[1].result
    /\ GetReturns(memoryCache, Msg.href, now) = Some(Entry(Result, now))

\* the artifact fields an update can carry, and the non-empty values that a
\* sequence of updates carries for them
ArtifactFields == {"overview", "outline", "summary", "imageDescription", "imageUrl", "riskNote"}
IsEmptyValue(field, value) ==
    value = Null \/ (IF field = "outline" THEN value = Some(<<>>) ELSE value = Some(""))
EmittedFields(updates) ==
    UNION { { <<f, updates[i][f]>> :
                f \in {g \in DOMAIN updates[i] \cap ArtifactFields :
                          ~IsEmptyValue(g, updates[i][g])} } :
            i \in 1..Len(updates) }

\* what a generatePreview for request r does from its cache lookup, when it
\* runs right after the step (within the TTL of anything just stored)
SecondPreviewOf(r) ==
    generatePreviewLookup([pc |-> "hash", request |-> Some(r)],
                          GetReturns(memoryCache', cacheKey(r), now'), promptAvailable')

\* C29: preview cache round trip: after a generatePreview run that emitted
\* artifact fields for a (finalUrl, type, fetchPlan) key, a second
\* generatePreview with the same key within the TTL emits exactly one update,
\* flagged cached, that carries those same field values, and issues no fetch
\* and starts no generative step.
C29_PreviewRoundTrip ==
    [][\A i \in Tabs :
         (/\ pvReturned' # Null
          /\ pvReturned'[1].call = i
          /\ pvCalls[i].pc \in {"generate", "download"}
          /\ EmittedFields(pvReturned'[1].updates) # {}) =>
             LET second == SecondPreviewOf(pvCalls[i].request[1])
             IN  /\ second.returned # Null
                 /\ second.fetch = Null
                 /\ Len(second.returned[1]) = 1
                 /\ "cached" \in DOMAIN second.returned[1][1]
                 /\ EmittedFields(pvReturned'[1].updates)
                        \subseteq EmittedFields(second.returned[1])
      ]_vars

\* the updates call i handed to onUpdate in the step
SentInStep(i) ==
    IF pvReturned' # Null /\ pvReturned'[1].call = i THEN pvReturned'[1].updates ELSE <<>>

\* C30: for an Image preview the image URL is streamed as soon as it is
\* ready: the step that builds the data URL hands onUpdate an update carrying
\* imageUrl, without waiting for the description step.
C30_ImageUrlStreamedFirst ==
    [][\A i \in Tabs :
         (pvCalls[i].pc = "generate" /\ pvCalls'[i].pc = "describe") =>
             \E u \in EmittedFields(SentInStep(i)) : u[1] = "imageUrl"
      ]_vars

\* C31: every artifact held in previewCache has at least one non-empty field
\* among summary, outline, overview, imageDescription and imageUrl, so a
\* cache hit never replays an empty preview.
C31_StoredArtifactNotEmpty ==
    \A key \in DOMAIN memoryCache :
        \E field \in {"summary", "outline", "overview", "imageDescription", "imageUrl"} :
            ~IsEmptyValue(field, memoryCache[key].data[field])

\* the hops the probe followed: every HEAD it issued but the first
HopsFollowed == Len(pfHeadLog) - 1

\* C32 as stated: the probe ends after at most 4 HEAD requests, and the
\* redirectCount it reports is the number of hops followed to reach finalUrl
\* and never exceeds 3.
C32_Original ==
    /\ Len(pfHeadLog) <= maxRedirects + 1
    /\ pfHeadResult # Null =>
          /\ pfHeadResult[1].redirectCount = HopsFollowed
          /\ pfHeadResult[1].redirectCount <= maxRedirects

\* C32: the probe follows a Location at most 3 times and issues at most 4
\* HEAD requests, whatever the redirects (cycles included); its finalUrl is
\* the URL of the last HEAD; the redirectCount it reports counts the redirect
\* responses with a Location it received, which is the number of hops
\* followed plus one when the probe ended on a redirect it did not follow
\* (the 4th redirect, or a Location that is not a URL), so it never exceeds 4.
C32_RedirectsBounded ==
    /\ Len(pfHeadLog) <= maxRedirects + 1
    /\ Len(pfHeadTrace) <= Len(pfHeadLog)
    /\ pfHeadResult # Null =>
          /\ HopsFollowed <= maxRedirects
          /\ pfHeadResult[1].finalUrl = pfHeadLog[Len(pfHeadLog)]
          /\ pfHeadResult[1].redirectCount =
                 HopsFollowed + (IF Redirected(pfHeadTrace[Len(pfHeadTrace)]) THEN 1 ELSE 0)
          /\ pfHeadResult[1].redirectCount <= maxRedirects + 1

\* a redirect cycle between two URLs ended the probe at the 4th redirect:
\* 4 HEAD requests, 3 hops followed, redirectCount 4
C32_Witness ==
    /\ pfHeadResult # Null
    /\ Len(pfHeadLog) = 4
    /\ pfHeadLog[4] = pfHeadLog[2]
    /\ pfHeadLog[3] # pfHeadLog[2]
    /\ Redirected(pfHeadTrace[4])
    /\ pfHeadResult[1].redirectCount = 4

\* what a fresh performPreflightCheck of the message's three inputs does up
\* to its first await
FreshStart == PreflightStart(Msg.href, Msg.anchorText, Msg.pageOrigin)

\* C35: a result served from the cache is what a fresh classification of the
\* same href, anchor text and page origin would return: where the fresh
\* classification returns before any probe the two are equal, and otherwise
\* the cached result is no same-page anchor, has the fresh textMismatch, is
\* not Green when the fresh lexical checks raise a signal, and carries the
\* 'HTTP (not secure)' reason only if the request is a downgrade.
C35_CachedEqualsFresh ==
    (Responded /\ pfFromCache) =>
        /\ FreshStart.done => Result = FreshStart.result
        /\ ~FreshStart.done =>
              /\ Result.type # Anchor
              /\ Result.textMismatch = FreshStart.textMismatch
              /\ FreshStart.allSignals # <<>> => Result.risk # Green
              /\ (\E i \in 1..Len(Result.reasons) : Result.reasons[i] = "HTTP (not secure)")
                     => checkHttpsDowngrade(FreshStart.url, Msg.pageOrigin)

\* C36: hydration never replaces a newer entry: the step in which
\* initialize() puts the stored entries into the Map leaves every entry that
\* a set() already put there as it is, so get(k) goes on returning it.
C36_HydrationKeepsNewer ==
    [][(hydration = "read" /\ hydration' = "done") =>
          \A key \in DOMAIN memoryCache :
              /\ MapHas(memoryCache', key)
              /\ memoryCache'[key] = memoryCache[key]
      ]_vars

\* C38: every generatePreview that the content script asks for after adding
\* a loading indicator (a result that shouldProcess accepts, risk not Red)
\* hands onUpdate at least one update before it resolves, whatever the
\* capabilities, the fetch, the parse and the models give.
C38_AtLeastOneUpdate ==
    [][\A i \in Tabs :
         (/\ pvCalls[i].pc \in {"hash", "fetch", "generate", "download"}
          /\ pvReturned' # Null
          /\ pvReturned'[1].call = i) =>
             Len(pvReturned'[1].updates) >= 1
      ]_vars

\* C39: chrome.offscreen.createDocument is invoked only while the extension
\* has no offscreen document and is creating none, however many previews run
\* at once; so no createDocument is refused and no preview loses its parse.
C39_OneOffscreenDocument ==
    [][\A w \in Previews :
         /\ (osCalls[w] = "contexts" /\ osCalls'[w] \in {"create", "createRefused"})
                => osDocument = "none"
         /\ osCalls'[w] # "failed"
      ]_vars

\* C33: a preflightCheck is sent only when the timer of a link fires after
\* the pointer has stayed on the link for the delay the README states; when
\* the pointer leaves a link its pending timer is cancelled; and no link has
\* both a pending timer and an entry of activeLinks, nor two entries.
C33_FullHoverDelay ==
    [][/\ (csSent' > csSent) =>
              \E link \in Links :
                  /\ hoverTimeouts[link] # Null
                  /\ hoverTimeouts'[link] = Null
                  /\ hoverTimeouts[link][1] >= ReadmeHoverDelay
       /\ \A link \in Links :
              (csPointer = link /\ csPointer' = "none") => hoverTimeouts'[link] = Null
       /\ \A link \in Links :
              /\ ~(hoverTimeouts'[link] # Null /\ ActiveHas(activeLinks', link))
              /\ Cardinality({i \in 1..Len(activeLinks') : activeLinks'[i].link = link}) <= 1
      ]_vars

\* C34: while no linkPreviewEnabled setting has ever been stored, the page
\* sends no preflightCheck and has no popup.
NoPopup == \A i \in 1..Len(activeLinks) : ~activeLinks[i].previewElement
C34_OffOnFirstInstall ==
    [][csStored = "unset" =>
          /\ csSent' = csSent
          /\ (csStored' = "unset" => NoPopup')
      ]_vars

\* C37: the popup of a link only ever shows updates generated for the
\* result of that link.
C37_UpdateInOwnPopup ==
    \A i \in 1..Len(activeLinks) : activeLinks[i].shown \subseteq {activeLinks[i].link}

\* C40: while the stored setting is false and every togglePreview message
\* has been delivered, or the page's flag is off, no preflightCheck is sent
\* and the page has no popup.
Disabled == (csStored = "false" /\ csToggle = Null) \/ ~isExtensionEnabled
NoPopupOpen == \A i \in 1..Len(activeLinks) : activeLinks[i].previewElement = FALSE
C40_DisabledIsQuiet ==
    [][/\ Disabled => csSent' = csSent
       /\ Disabled' => NoPopupOpen'
      ]_vars

\* ------------------------------------------------------- specifications

SpecPure == InitPure /\ [][NextPure]_vars

Spec == Init /\ [][Next]_vars

SpecOverlap == Init /\ [][NextOverlap]_vars

\* a timer that is set fires unless it is cleared first
SpecTimed == Init /\ [][NextTimed]_vars /\ WF_vars(ProbeTimeout)

SpecCache == InitCache /\ [][NextCache]_vars

SpecPersist == InitCache /\ [][NextPersist]_vars

SpecPreview == InitPreview /\ [][NextPreview]_vars
SpecImage == InitPreview /\ [][NextImage]_vars
SpecOffscreen == Init /\ [][NextOffscreen]_vars
SpecContent == InitContent /\ [][NextContent]_vars

\* a timer that is set fires unless it is cleared first; nothing obliges the
\* server to answer
SpecFetch == Init /\ [][NextFetch]_vars /\ WF_vars(PartialFetchTimeout)

====
